---- MODULE Spec2Model ----
(***************************************************************************)
(* Kill All Dandelions: the enemy simulation, the powerups and the score   *)
(* ledger as a state machine.                                              *)
(*                                                                         *)
(* One frame of the Update schedule is a sequence of steps: every system   *)
(* of the frame runs once, in an order the scheduler is free to choose     *)
(* (the systems are registered as unordered tuples), and the frame ends    *)
(* with the application of the deferred Commands (spawn, despawn, insert,  *)
(* remove).  Component and resource writes are immediate; entity creation  *)
(* and removal become visible only at the end of the frame.                *)
(*                                                                         *)
(* Units: lengths are tenths of a world unit, times are milliseconds,      *)
(* areas are multiples of pi/100 square world units, level multipliers     *)
(* are tenths.  Floating point rounding is not modelled.                   *)
(***************************************************************************)
EXTENDS Integers, Sequences, FiniteSets, TLC

\* ------------------------------------------------------------------ bounds

\* Entity ids the model may allocate (ids are never reused).
MaxEntities == 14

\* Length of every frame, in milliseconds (bevy clamps a frame to 250 ms).
FrameDelta == 250

\* Debug keys / powerup activations the player may trigger in one run.
MaxPresses == 1

\* Clicks (or touches) the player may make in one run.
MaxClicks == 2

\* Half the width of the area moving dandelions are clamped to.
LawnHalfWidth == 250

\* ------------------------------------------------------- program constants

MAX_GENERATION == 5
FIRE_RADIUS == 1000
FIRE_LIFETIME == 3000
RABBIT_LIFETIME == 3000
RABBIT_SPEED == 1200
RABBIT_EAT_DISTANCE == 250
FALLBACK_RADIUS == 2000
RABBITS_PER_SPAWN == 3
RABBIT_FAN_RADIUS == 200
REPRODUCE_AT == 2
DANDELION_POINTS == 10
INITIAL_COMBO_TIME == 3000
MAX_COMBO_TIME == 6000
DEFAULT_SLASH_OFFSET == 300
SEED_ORB_TIME == 400
SPAWN_INTERVAL == 2000
VARIETY_INTERVAL == 10000
DEFAULT_VARIETY_THRESHOLD == 500
UPGRADE_COOLDOWN == 1000
MAX_UPGRADES_PER_FRAME == 10
MOVING_SPEED == 500

NoEntity == 0

\* ------------------------------------------------------------ size tables

DandelionSize == {"Tiny", "Small", "Medium", "Large", "Huge"}

spawn_count(size) ==
    CASE size = "Tiny" -> 2
      [] size = "Small" -> 3
      [] size = "Medium" -> 4
      [] size = "Large" -> 5
      [] size = "Huge" -> 6

collision_radius(size) ==
    CASE size = "Tiny" -> 175
      [] size = "Small" -> 230
      [] size = "Medium" -> 280
      [] size = "Large" -> 350
      [] size = "Huge" -> 440

\* collision_radius * 1.2, in tenths of a tenth so that it stays an integer.
merge_radius_x10(size) == collision_radius(size) * 12

\* A size ladder without a top: Huge grows into Huge.
next_size_uncapped(size) ==
    CASE size = "Tiny" -> "Small"
      [] size = "Small" -> "Medium"
      [] size = "Medium" -> "Large"
      [] size = "Large" -> "Huge"
      [] size = "Huge" -> "Huge"

\* "None" stands for Option::None.
next_size(size) ==
    CASE size = "Tiny" -> "Small"
      [] size = "Small" -> "Medium"
      [] size = "Medium" -> "Large"
      [] size = "Large" -> "Huge"
      [] size = "Huge" -> "None"

size_multiplier_x10(size) ==
    CASE size = "Tiny" -> 10
      [] size = "Small" -> 12
      [] size = "Medium" -> 15
      [] size = "Large" -> 20
      [] size = "Huge" -> 30

\* PI * radius * radius * size_multiplier, in units of pi/100.
visual_area(size) ==
    (collision_radius(size) * collision_radius(size) * size_multiplier_x10(size)) \div 10

base_health(size) ==
    CASE size = "Tiny" -> 1
      [] size = "Small" -> 2
      [] size = "Medium" -> 3
      [] size = "Large" -> 4
      [] size = "Huge" -> 5

\* --------------------------------------------------------------- geometry

DistSq(p, q) == (p[1] - q[1]) * (p[1] - q[1]) + (p[2] - q[2]) * (p[2] - q[2])

\* a.distance(b) <= r
Within(p, q, r) == DistSq(p, q) <= r * r

Midpoint(p, q) == <<(p[1] + q[1]) \div 2, (p[2] + q[2]) \div 2>>

RECURSIVE SqrtSearch(_, _, _)
SqrtSearch(n, lo, hi) ==
    IF lo >= hi THEN lo
    ELSE LET mid == (lo + hi + 1) \div 2
         IN  IF mid * mid <= n THEN SqrtSearch(n, mid, hi) ELSE SqrtSearch(n, lo, mid - 1)

\* floor of the square root
ISqrt(n) == SqrtSearch(n, 0, 46340)

Distance(p, q) == ISqrt(DistSq(p, q))

\* Twice the squared distance from point to the slash segment that runs from
\* click + (offset, offset) to click - (offset, offset).  With v = point - start
\* and line_vec = (-2 offset, -2 offset): dot = -2 offset (vx + vy), the
\* projection parameter t = dot / (8 offset^2) is clamped to [0, 1], and
\* for 0 < t < 1 the squared distance is (vx - vy)^2 / 2.
SlashDistSqX2(point, click, offset) ==
    LET start == <<click[1] + offset, click[2] + offset>>
        end == <<click[1] - offset, click[2] - offset>>
        vx == point[1] - start[1]
        vy == point[2] - start[2]
        dot == (0 - 2) * offset * (vx + vy)
        len2 == 8 * offset * offset
    IN  IF len2 = 0 THEN 2 * DistSq(point, start)
        ELSE IF dot <= 0 THEN 2 * DistSq(point, start)
        ELSE IF dot >= len2 THEN 2 * DistSq(point, end)
        ELSE (vx - vy) * (vx - vy)

\* ----------------------------------------------------------------- timers

\* A bevy Timer: just_finished is "finished during the last tick".
NewTimer(duration) ==
    [duration |-> duration, elapsed |-> 0, finished |-> FALSE, just_finished |-> FALSE]

\* A timer that never advances.
TickStuck(t, delta) == t

\* Timer::tick in TimerMode::Once
TickOnce(t, delta) ==
    IF t.finished THEN [t EXCEPT !.just_finished = FALSE]
    ELSE IF t.elapsed + delta >= t.duration
         THEN [t EXCEPT !.elapsed = t.duration, !.finished = TRUE, !.just_finished = TRUE]
         ELSE [t EXCEPT !.elapsed = t.elapsed + delta, !.just_finished = FALSE]

\* Timer::tick in TimerMode::Repeating
TickRepeating(t, delta) ==
    IF t.elapsed + delta >= t.duration
    THEN [t EXCEPT !.elapsed = (t.elapsed + delta) % t.duration,
                   !.finished = TRUE, !.just_finished = TRUE]
    ELSE [t EXCEPT !.elapsed = t.elapsed + delta, !.finished = FALSE, !.just_finished = FALSE]

\* VarietySpawnTimer::default(): a repeating timer, not yet enabled.
NewVarietySpawnTimer == [timer |-> NewTimer(VARIETY_INTERVAL), enabled |-> FALSE]

\* Timer::reset
ResetTimer(t) == [t EXCEPT !.elapsed = 0, !.finished = FALSE, !.just_finished = FALSE]

\* -------------------------------------------------------------- GameData

\* 1000 * ln(combo), rounded down, for the combos below the cap.
LnMilli(combo) ==
    CASE combo = 1 -> 0
      [] combo = 2 -> 693
      [] combo = 3 -> 1098
      [] combo = 4 -> 1386
      [] combo = 5 -> 1609
      [] combo = 6 -> 1791
      [] combo = 7 -> 1945
      [] combo = 8 -> 2079
      [] combo = 9 -> 2197
      [] combo = 10 -> 2302
      [] combo = 11 -> 2397
      [] combo = 12 -> 2484
      [] combo = 13 -> 2564
      [] combo = 14 -> 2639
      [] combo = 15 -> 2708
      [] OTHER -> 2772

Min(a, b) == IF a <= b THEN a ELSE b

\* The grace period without its cap.
ComboDurationUncapped(combo) ==
    INITIAL_COMBO_TIME + ((LnMilli(combo) + 1000) * 8) \div 10

\* (INITIAL_COMBO_TIME + (ln(combo) + 1) * 0.8).min(MAX_COMBO_TIME); from
\* combo 16 on ln(combo) >= 2.75 and the sum is above the cap.
ComboDuration(combo) ==
    Min(INITIAL_COMBO_TIME + ((LnMilli(combo) + 1000) * 8) \div 10, MAX_COMBO_TIME)

NewGameData ==
    [score |-> 0, combo |-> 0, combo_timer |-> NewTimer(INITIAL_COMBO_TIME),
     dandelion_count |-> 0, slash_mode |-> TRUE]

add_dandelion_kill(gd) ==
    [gd EXCEPT !.combo = gd.combo + 1,
               !.score = gd.score + DANDELION_POINTS * (gd.combo + 1),
               !.combo_timer = NewTimer(ComboDuration(gd.combo + 1))]

\* A reset that forgets to restore the initial grace period.
reset_combo_keeps_duration(gd) ==
    [gd EXCEPT !.combo = 0, !.combo_timer = ResetTimer(@)]

reset_combo(gd) ==
    [gd EXCEPT !.combo = 0, !.combo_timer = NewTimer(INITIAL_COMBO_TIME)]

\* dandelion_count.saturating_sub(1)
SaturatingDec(n) == IF n > 0 THEN n - 1 ELSE 0

\* One destruction's bookkeeping on GameData: a kill and a count decrement.
KillAndCount(gd) ==
    LET g == add_dandelion_kill(gd)
    IN  [g EXCEPT !.dandelion_count = SaturatingDec(g.dandelion_count)]

\* The bookkeeping of n destructions done twice over.
RECURSIVE KillAndCountDoubled(_, _)
KillAndCountDoubled(gd, n) ==
    IF n = 0 THEN gd ELSE KillAndCountDoubled(KillAndCount(KillAndCount(gd)), n - 1)

RECURSIVE KillAndCountTimes(_, _)
KillAndCountTimes(gd, n) ==
    IF n = 0 THEN gd ELSE KillAndCountTimes(KillAndCount(gd), n - 1)

\* ------------------------------------------------------------------ state

VARIABLES
    dandelions,      \* live Dandelion entities: id -> [health, size, pos, moving, cooldown]
    orbs,            \* live SeedOrb entities: id -> [target_position, spawn_timer]
    rabbits,         \* live Rabbit entities: id -> [target, dandelions_eaten, lifetime, pos]
    fires,           \* live FireIgnition entities: id -> [pos, generation, lifetime, parent, origin]
    targets,         \* RabbitTargeting.targets: dandelion id -> rabbit id
    total_area,      \* DandelionAreaTracker.total_area
    game_data,       \* GameData
    spawn_timer,     \* DandelionSpawnTimer.timer
    variety_timer,   \* VarietySpawnTimer: its timer and its enabled flag
    level_data,      \* LevelData: current_level and each level's best_stars
    level_start,     \* unread LevelStartEvents
    commands,        \* the frame's deferred Commands
    next_entity,     \* the next entity id to allocate
    ran,             \* the systems that have run in the current frame
    kills,           \* the destructions performed in the current frame
    presses,         \* debug keys pressed so far
    clicks,          \* clicks made so far
    game_state,      \* State<GameState>: "Playing" or "Menu"
    inserted,        \* the resources of the Playing state that are in the world
    schedule,        \* the order the systems ran in: this frame and the one before
    pause_state,     \* State<PauseState>: "Playing", or while paused the PauseMenuState: "Paused" for
                     \* the pause menu itself, "LevelSelection"
    next_state,      \* NextState<PauseState> and NextState<GameState>: what is pending
    level_session,   \* LevelSession: whether it was started, and target_reached
    level_events,    \* LevelStartEvents and LevelCompleteEvents not yet read
    overlay          \* the level-complete overlay: its Visibility, and whether its button can be pressed

world == <<dandelions, orbs, rabbits, fires>>
resources == <<targets, total_area, game_data, spawn_timer, variety_timer, level_data, level_start>>
inputs == <<presses, clicks>>
app == <<game_state, inserted, schedule>>
session == <<pause_state, next_state, level_session, level_events, overlay>>
vars == <<dandelions, orbs, rabbits, fires, targets, total_area, game_data, spawn_timer, variety_timer,
          level_data, level_start, commands, next_entity, ran, kills, presses, clicks,
          game_state, inserted, schedule,
          pause_state, next_state, level_session, level_events, overlay>>

EmptyMap == [i \in {} |-> NoEntity]

\* f without the keys in gone
Without(f, gone) == [i \in (DOMAIN f) \ gone |-> f[i]]

NoCommands ==
    [despawn |-> {}, dandelions |-> EmptyMap, orbs |-> EmptyMap, rabbits |-> EmptyMap,
     fires |-> EmptyMap, insert_cooldown |-> {}, insert_moving |-> {}, remove_cooldown |-> {}]

\* The points of the lawn that spawns, the cursor and clicks may use.
Positions == {<<0, 0>>, <<160, 0>>, <<900, 0>>}

\* Where a seed orb may land relative to the destroyed dandelion: a random
\* angle and a random distance in [50, 150).
OrbOffsets == {<<600, 0>>, <<0, 800>>}

\* A dandelion spawned without MovingDandelion whatever its size.
DandelionStill(health, size, pos) ==
    [health |-> health, size |-> size, pos |-> pos, moving |-> FALSE, cooldown |-> -1]

Dandelion(health, size, pos) ==
    [health |-> health, size |-> size, pos |-> pos, moving |-> size = "Huge", cooldown |-> -1]

\* FireIgnition { generation, ..Default::default() }; parent and origin record
\* the generation of the fire and the dandelion whose kill queued this one
\* (-1 and NoEntity for a fire lit by a powerup).
spawn_fire_ignition_with_generation(pos, generation, parent, origin) ==
    [pos |-> pos, generation |-> generation, lifetime |-> NewTimer(FIRE_LIFETIME),
     parent |-> parent, origin |-> origin]

\* The sequences that enumerate the set S once each: the orders in which a
\* query may iterate its entities.
RECURSIVE Orders(_)
Orders(S) ==
    IF S = {} THEN {<<>>}
    ELSE UNION {{<<x>> \o rest : rest \in Orders(S \ {x})} : x \in S}

\* The first element of the iteration order that satisfies P, or NoEntity.
RECURSIVE FirstIn(_, _, _)
FirstIn(order, i, good) ==
    IF i > Len(order) THEN NoEntity
    ELSE IF order[i] \in good THEN order[i]
    ELSE FirstIn(order, i + 1, good)

\* The sum of visual_area(size) over the dandelions of ds whose ids are in S.
RECURSIVE SumArea(_, _)
SumArea(ds, S) ==
    IF S = {} THEN 0
    ELSE LET x == CHOOSE y \in S : TRUE
         IN  visual_area(ds[x].size) + SumArea(ds, S \ {x})

\* The elements of a set of ids in increasing order.
RECURSIVE SortedSeq(_)
SortedSeq(S) ==
    IF S = {} THEN <<>>
    ELSE LET x == CHOOSE y \in S : \A z \in S : y <= z
         IN  <<x>> \o SortedSeq(S \ {x})

\* ----------------------------------------------------------------- levels

LevelIds == 1..12

health_multiplier_x10(level) ==
    <<10, 12, 15, 18, 22, 25, 30, 35, 40, 50, 60, 70>>[level]

spawn_rate_multiplier_x10(level) ==
    <<10, 11, 12, 13, 14, 15, 16, 18, 20, 25, 30, 35>>[level]

difficulty_threshold(level) ==
    <<200, 300, 400, 500, 600, 700, 800, 900, 1000, 1200, 1500, 2000>>[level]

required_level(level) == level - 1

required_stars(level) ==
    <<0, 1, 2, 4, 6, 8, 10, 12, 15, 18, 20, 25>>[level]

target_points(level) ==
    <<500, 800, 1200, 1800, 2500, 3500, 5000, 7500, 10000, 15000, 20000, 30000>>[level]

\* TimeLimits, in ms
three_star(level) == 1000 * <<60, 90, 120, 150, 180, 210, 240, 300, 360, 420, 480, 600>>[level]
two_star(level) == 1000 * <<90, 120, 150, 180, 240, 270, 300, 360, 420, 480, 540, 720>>[level]
one_star(level) == 1000 * <<120, 180, 240, 300, 360, 420, 480, 600, 720, 840, 960, 1200>>[level]

\* LevelProgress::default().best_time, in ms
DEFAULT_BEST_TIME == 999000

\* LevelData::default(): level 1 current, every level's progress at its default
NewLevelData ==
    [current_level |-> 1,
     completed |-> [l \in LevelIds |-> FALSE],
     best_score |-> [l \in LevelIds |-> 0],
     best_time |-> [l \in LevelIds |-> DEFAULT_BEST_TIME],
     best_stars |-> [l \in LevelIds |-> 0]]

RECURSIVE SumStars(_, _)
SumStars(ld, n) == IF n = 0 THEN 0 ELSE ld.best_stars[n] + SumStars(ld, n - 1)

is_level_unlocked(ld, level_id) ==
    IF level_id \in LevelIds
    THEN IF required_level(level_id) = 0 THEN TRUE
         ELSE SumStars(ld, required_level(level_id)) >= required_stars(level_id)
    ELSE FALSE

\* A selection that does not look at the unlock requirements.
set_current_level_unchecked(ld, level_id) == [ld EXCEPT !.current_level = level_id]

set_current_level(ld, level_id) ==
    IF is_level_unlocked(ld, level_id) THEN [ld EXCEPT !.current_level = level_id] ELSE ld

calculate_stars(level, completion_time) ==
    IF completion_time <= three_star(level) THEN 3
    ELSE IF completion_time <= two_star(level) THEN 2
    ELSE IF completion_time <= one_star(level) THEN 1
    ELSE 0

Max(a, b) == IF a >= b THEN a ELSE b

\* complete_level: the progress of the level is rewritten only by a result
\* with a higher score, or the same score in less time.
complete_level(ld, level_id, completion_time, final_score) ==
    IF level_id \notin LevelIds THEN ld
    ELSE LET stars == calculate_stars(level_id, completion_time)
         IN  IF \/ final_score > ld.best_score[level_id]
                \/ /\ final_score = ld.best_score[level_id]
                   /\ completion_time < ld.best_time[level_id]
             THEN [ld EXCEPT !.best_score[level_id] = final_score,
                             !.best_time[level_id] = completion_time,
                             !.best_stars[level_id] = Max(stars, @),
                             !.completed[level_id] = TRUE]
             ELSE ld

\* A scaling that rounds down.
ScaledHealthFloor(ld, base) ==
    IF ld.current_level \in LevelIds
    THEN (base * health_multiplier_x10(ld.current_level)) \div 10
    ELSE base

\* (base_health as f32 * health_multiplier).ceil() for the current level
ScaledHealth(ld, base) ==
    IF ld.current_level \in LevelIds
    THEN (base * health_multiplier_x10(ld.current_level) + 9) \div 10
    ELSE base

\* ------------------------------------------------------ the level session

\* No state transition is pending.
NoTransition == [pause |-> "None", game |-> "None"]

\* LevelSession as setup_game_resources inserts it: started, target not reached
NewLevelSession == [started |-> TRUE, target_reached |-> FALSE]

NoLevelEvents == [start |-> <<>>, complete |-> <<>>, shown |-> <<>>]

\* The overlay as setup_level_complete_overlay spawns it: hidden. A button
\* takes a press only once the visibility set in Update has been propagated
\* after it.
NoOverlay == [visible |-> FALSE, interactive |-> FALSE]

\* A run in progress: not paused, nothing pending, the session started and
\* every level event read.
FreshSession ==
    /\ pause_state = "Playing"
    /\ next_state = NoTransition
    /\ level_session = NewLevelSession
    /\ level_events = NoLevelEvents
    /\ overlay = NoOverlay

\* ------------------------------------------------------- end of the frame

\* The resources the OnEnter(GameState::Playing) systems insert
EnemyResources == {"DandelionSpawnTimer", "DandelionAreaTracker", "VarietySpawnTimer"}
PowerupResources == {"PowerupSpawnTimer", "RabbitTargeting", "FireManager"}
GameResources == {"GameData", "LevelSession"}
PlayingResources == EnemyResources \cup PowerupResources \cup GameResources

\* The deferred commands of the frame are applied: despawns, spawns,
\* try_insert and remove of components.
ApplyCommands ==
    /\ dandelions' =
         [i \in (DOMAIN dandelions) \ commands.despawn |->
            [dandelions[i] EXCEPT
               !.cooldown = IF i \in commands.insert_cooldown THEN 0
                            ELSE IF i \in commands.remove_cooldown THEN -1
                            ELSE @,
               !.moving = IF i \in commands.insert_moving THEN TRUE ELSE @]]
         @@ commands.dandelions
    /\ orbs' = Without(orbs, commands.despawn) @@ commands.orbs
    /\ rabbits' = Without(rabbits, commands.despawn) @@ commands.rabbits
    /\ fires' = Without(fires, commands.despawn) @@ commands.fires
    /\ commands' = NoCommands

\* The record of system order: kept only in runs that ask for it.
NoSchedule == [tracked |-> FALSE, last |-> <<>>, now |-> <<>>]
NewSchedule == [tracked |-> TRUE, last |-> <<>>, now |-> <<>>]

\* A system of the Update schedule runs: all of them carry
\* run_if(in_state(GameState::Playing)), and each runs once per frame. The
\* StateTransition schedule runs before Update: a frame does not begin while
\* a transition is pending.
RunSystem(system) ==
    /\ game_state = "Playing"
    /\ ran = {} => next_state = NoTransition
    /\ ran' = ran \cup {system}
    /\ schedule' = IF schedule.tracked THEN [schedule EXCEPT !.now = Append(@, system)]
                   ELSE schedule
    /\ UNCHANGED <<game_state, inserted, pause_state>>

\* A system that also carries run_if(in_state(PauseState::Playing)) and has
\* no part in pausing, in the level session or in the level events.
Run(system) ==
    /\ pause_state = "Playing"
    /\ RunSystem(system)
    /\ UNCHANGED <<next_state, level_session, level_events, overlay>>

EndFrame(systems) ==
    /\ game_state = "Playing"
    /\ ran = systems
    /\ ApplyCommands
    /\ ran' = {}
    /\ kills' = {}
    /\ schedule' = IF schedule.tracked THEN [schedule EXCEPT !.last = schedule.now, !.now = <<>>]
                   ELSE schedule
    /\ overlay' = [overlay EXCEPT !.interactive = overlay.visible]
    /\ UNCHANGED <<resources, next_entity, inputs, game_state, inserted,
                   pause_state, next_state, level_session, level_events>>

\* -------------------------------------------------------- fire subsystem

\* Fires that also reach a point through the chain fire of a dandelion they
\* burn in the same pass.
FiresHittingThroughChain(active, pos) ==
    {f \in DOMAIN active :
       \/ Within(active[f].pos, pos, FIRE_RADIUS)
       \/ \E d \in DOMAIN dandelions :
             /\ Within(active[f].pos, dandelions[d].pos, FIRE_RADIUS)
             /\ Within(dandelions[d].pos, pos, FIRE_RADIUS)}

\* The fires of active_fires whose radius contains the point.
FiresHitting(active, pos) == {f \in DOMAIN active : Within(active[f].pos, pos, FIRE_RADIUS)}

\* Queue chain fire if generation limit not exceeded
\* The limit test off by one.
QueuesChainFireAtLimit(generation) == generation <= MAX_GENERATION

QueuesChainFire(generation) == generation < MAX_GENERATION

\* A chain that skips a generation.
ChainGenerationSkips(generation) == generation + 2

ChainGeneration(generation) == generation + 1

update_fire_system ==
    /\ "update_fire_system" \notin ran
    /\ \E fire_order \in Orders({f \in DOMAIN fires : \E d \in DOMAIN dandelions :
                                     Within(fires[f].pos, dandelions[d].pos, FIRE_RADIUS)}) :
         LET ticked == [f \in DOMAIN fires |->
                          [fires[f] EXCEPT !.lifetime = TickOnce(@, FrameDelta)]]
             expired == {f \in DOMAIN fires : ticked[f].lifetime.just_finished}
             \* dandelions_to_destroy, with the fire that hit each first
             doomed == {d \in DOMAIN dandelions : FiresHitting(ticked, dandelions[d].pos) # {}}
             by == [d \in doomed |->
                      FirstIn(fire_order, 1, FiresHitting(ticked, dandelions[d].pos))]
             chained == {d \in doomed : QueuesChainFire(ticked[by[d]].generation)}
             \* pending_fires, one new entity each
             queue == SortedSeq(chained)
         IN  /\ next_entity + Len(queue) - 1 <= MaxEntities
             /\ fires' = ticked
             /\ commands' =
                  [commands EXCEPT
                     !.despawn = @ \cup expired \cup doomed,
                     !.fires = @ @@
                        [i \in next_entity .. (next_entity + Len(queue) - 1) |->
                           LET d == queue[i - next_entity + 1]
                           IN  spawn_fire_ignition_with_generation(
                                   dandelions[d].pos,
                                   ChainGeneration(ticked[by[d]].generation),
                                   ticked[by[d]].generation, d)]]
             /\ total_area' = total_area - SumArea(dandelions, doomed)
             /\ game_data' = KillAndCountTimes(game_data, Cardinality(doomed))
             /\ kills' = kills \cup
                  {[dandelion |-> d, by |-> "fire", who |-> by[d]] : d \in doomed}
             /\ next_entity' = next_entity + Len(queue)
    /\ Run("update_fire_system")
    /\ UNCHANGED <<dandelions, orbs, rabbits, targets, spawn_timer, variety_timer, level_data, level_start, inputs>>

\* --------------------------------------------------- clicks and slashes

\* dandelion.health.saturating_sub(1)
Damage(health) == IF health > 0 THEN health - 1 ELSE 0

\* A damage rule that reports the kill one health point early.
damage_kills_early(health) == health <= 1

\* damage_dandelion's result: the dandelion is dead once its health is 0.
damage_kills(health) == health = 0

\* process_slash_attack: every dandelion whose circle meets the slash segment.
SlashHits(click_pos, offset) ==
    {d \in DOMAIN dandelions :
        SlashDistSqX2(dandelions[d].pos, click_pos, offset)
            <= 2 * collision_radius(dandelions[d].size) * collision_radius(dandelions[d].size)}

\* process_dandelion_hit: the dandelions whose circle contains the click; the
\* first of them in the query's iteration order is the one hit.
ClickCandidates(click_pos) ==
    {d \in DOMAIN dandelions :
        Within(click_pos, dandelions[d].pos, collision_radius(dandelions[d].size))}

\* A dispatch that ignores slash_mode and always takes the single-hit path.
HitSetsIgnoringMode(click_pos) ==
    IF ClickCandidates(click_pos) = {} THEN {{}}
    ELSE {{d} : d \in ClickCandidates(click_pos)}

\* The sets of dandelions one click may damage.
HitSets(click_pos) ==
    IF game_data.slash_mode THEN {SlashHits(click_pos, DEFAULT_SLASH_OFFSET)}
    ELSE IF ClickCandidates(click_pos) = {} THEN {{}}
    ELSE {{d} : d \in ClickCandidates(click_pos)}

\* One entry per seed orb to emit: the destroyed dandelion it comes from.
RECURSIVE Repeat(_, _)
Repeat(x, n) == IF n = 0 THEN <<>> ELSE <<x>> \o Repeat(x, n - 1)

RECURSIVE OrbOrigins(_, _)
OrbOrigins(ds, dead) ==
    IF dead = <<>> THEN <<>>
    ELSE Repeat(Head(dead), spawn_count(ds[Head(dead)].size)) \o OrbOrigins(ds, Tail(dead))

\* spawn_seed_orbs: a seed orb travelling to origin + offset
SeedOrb(origin, offset) ==
    [target_position |-> <<origin[1] + offset[1], origin[2] + offset[2]>>,
     spawn_timer |-> NewTimer(SEED_ORB_TIME)]

\* Where the player may click or hold the cursor: on a dandelion, or on the
\* origin of the lawn.
Cursors == {<<0, 0>>} \cup {dandelions[d].pos : d \in DOMAIN dandelions}

\* handle_dandelion_clicks without a click or a touch in this frame
NoClick ==
    /\ "handle_dandelion_clicks" \notin ran
    /\ Run("handle_dandelion_clicks")
    /\ UNCHANGED <<world, resources, commands, next_entity, kills, inputs>>

\* handle_dandelion_clicks with a click: damage_dandelion on every dandelion
\* hit, destroy_dandelion on those whose health reaches 0.
handle_dandelion_clicks ==
    /\ "handle_dandelion_clicks" \notin ran
    /\ clicks < MaxClicks
    /\ \E click_pos \in Cursors : \E hit \in HitSets(click_pos) :
         LET damaged == [d \in DOMAIN dandelions |->
                           IF d \in hit THEN [dandelions[d] EXCEPT !.health = Damage(@)]
                           ELSE dandelions[d]]
             dead == {d \in hit : damage_kills(damaged[d].health)}
             origins == OrbOrigins(dandelions, SortedSeq(dead))
             n == Len(origins)
         IN  /\ next_entity + n - 1 <= MaxEntities
             /\ \E offsets \in [1..n -> OrbOffsets] :
                  commands' =
                    [commands EXCEPT
                       !.despawn = @ \cup dead,
                       !.orbs = @ @@ [i \in next_entity .. (next_entity + n - 1) |->
                                        SeedOrb(dandelions[origins[i - next_entity + 1]].pos,
                                                offsets[i - next_entity + 1])]]
             /\ dandelions' = damaged
             /\ total_area' = total_area - SumArea(dandelions, dead)
             /\ game_data' = KillAndCountTimes(game_data, Cardinality(dead))
             /\ kills' = kills \cup
                  {[dandelion |-> d, by |-> "click", who |-> NoEntity] : d \in dead}
             /\ next_entity' = next_entity + n
    /\ clicks' = clicks + 1
    /\ Run("handle_dandelion_clicks")
    /\ UNCHANGED <<orbs, rabbits, fires, targets, spawn_timer, variety_timer, level_data, level_start, presses>>

\* handle_game_input / handle_button_interactions: Tab or the attack-mode
\* button toggles slash mode.
toggle_slash_mode ==
    /\ "handle_game_input" \notin ran
    /\ presses < MaxPresses
    /\ game_data' = [game_data EXCEPT !.slash_mode = ~@]
    /\ presses' = presses + 1
    /\ Run("handle_game_input")
    /\ UNCHANGED <<world, targets, total_area, spawn_timer, variety_timer, level_data, level_start,
                   commands, next_entity, kills, clicks>>

NoGameInput ==
    /\ "handle_game_input" \notin ran
    /\ Run("handle_game_input")
    /\ UNCHANGED <<world, resources, commands, next_entity, kills, inputs>>

\* -------------------------------------------------------------- seed orbs

\* Every orb in flight spawns, whatever its timer says.
AllOrbsRipe(ticked) == DOMAIN ticked

\* The orbs whose spawn_timer is finished() after this frame's tick
RipeOrbs(ticked) == {o \in DOMAIN ticked : ticked[o].spawn_timer.finished}

update_seed_orbs ==
    /\ "update_seed_orbs" \notin ran
    /\ LET ticked == [o \in DOMAIN orbs |->
                        [orbs[o] EXCEPT !.spawn_timer = TickOnce(@, FrameDelta)]]
           ripe == SortedSeq(RipeOrbs(ticked))
           n == Len(ripe)
       IN  /\ next_entity + n - 1 <= MaxEntities
           /\ orbs' = ticked
           /\ commands' =
                [commands EXCEPT
                   !.despawn = @ \cup {ripe[i] : i \in 1..n},
                   !.dandelions = @ @@
                      [i \in next_entity .. (next_entity + n - 1) |->
                         Dandelion(ScaledHealth(level_data, 1), "Tiny",
                                   orbs[ripe[i - next_entity + 1]].target_position)]]
           /\ game_data' = [game_data EXCEPT !.dandelion_count = @ + n]
           /\ total_area' = total_area + n * visual_area("Tiny")
           /\ next_entity' = next_entity + n
    /\ Run("update_seed_orbs")
    /\ UNCHANGED <<dandelions, rabbits, fires, targets, spawn_timer, variety_timer, level_data, level_start,
                   kills, inputs>>

\* ------------------------------------------------------------ debug keys

\* handle_debug_keys with none of F, B, D pressed
NoDebugKey ==
    /\ "handle_debug_keys" \notin ran
    /\ Run("handle_debug_keys")
    /\ UNCHANGED <<world, resources, commands, next_entity, kills, inputs>>

\* KeyF: use_powerup(Flamethrower) lights a generation 0 fire at the cursor.
press_fire_key ==
    /\ "handle_debug_keys" \notin ran
    /\ presses < MaxPresses
    /\ next_entity <= MaxEntities
    /\ \E cursor \in Cursors :
         commands' = [commands EXCEPT
                        !.fires = @ @@ [i \in {next_entity} |->
                           spawn_fire_ignition_with_generation(cursor, 0, -1, NoEntity)]]
    /\ next_entity' = next_entity + 1
    /\ presses' = presses + 1
    /\ Run("handle_debug_keys")
    /\ UNCHANGED <<world, resources, kills, clicks>>

\* The radial fan of spawn_rabbits: 20 units at 0, 120 and 240 degrees.
RabbitFan == <<<<RABBIT_FAN_RADIUS, 0>>,
               <<0 - RABBIT_FAN_RADIUS \div 2, (RABBIT_FAN_RADIUS * 866) \div 1000>>,
               <<0 - RABBIT_FAN_RADIUS \div 2, 0 - (RABBIT_FAN_RADIUS * 866) \div 1000>>>>

\* Rabbit::default() at a position
Rabbit(pos) ==
    [target |-> NoEntity, dandelions_eaten |-> 0,
     lifetime |-> NewTimer(RABBIT_LIFETIME), pos |-> pos]

\* spawn_rabbits: the new rabbits, given the first free entity id
spawn_rabbits(position, first) ==
    [i \in first .. (first + RABBITS_PER_SPAWN - 1) |->
       Rabbit(<<position[1] + RabbitFan[i - first + 1][1],
                position[2] + RabbitFan[i - first + 1][2]>>)]

\* KeyB: use_powerup(Bunny) spawns rabbits around the cursor.
press_bunny_key ==
    /\ "handle_debug_keys" \notin ran
    /\ presses < MaxPresses
    /\ next_entity + RABBITS_PER_SPAWN - 1 <= MaxEntities
    /\ \E cursor \in Cursors :
         commands' = [commands EXCEPT !.rabbits = @ @@ spawn_rabbits(cursor, next_entity)]
    /\ next_entity' = next_entity + RABBITS_PER_SPAWN
    /\ presses' = presses + 1
    /\ Run("handle_debug_keys")
    /\ UNCHANGED <<world, resources, kills, clicks>>

\* ------------------------------------------------------ expiry and combo

\* targets.retain(|_, r| r != rabbit)
clear_rabbit_targets(tg, rabbit) == Without(tg, {d \in DOMAIN tg : tg[d] = rabbit})

RECURSIVE ClearAll(_, _)
ClearAll(tg, rs) ==
    IF rs = {} THEN tg
    ELSE LET r == CHOOSE x \in rs : TRUE IN ClearAll(clear_rabbit_targets(tg, r), rs \ {r})

cleanup_expired_entities ==
    /\ "cleanup_expired_entities" \notin ran
    /\ LET old_rabbits == {r \in DOMAIN rabbits : rabbits[r].lifetime.just_finished}
           old_fires == {f \in DOMAIN fires : fires[f].lifetime.just_finished}
       IN  /\ targets' = ClearAll(targets, old_rabbits)
           /\ commands' = [commands EXCEPT !.despawn = @ \cup old_rabbits \cup old_fires]
    /\ Run("cleanup_expired_entities")
    /\ UNCHANGED <<world, total_area, game_data, spawn_timer, variety_timer, level_data, level_start,
                   next_entity, kills, inputs>>

update_combo_timer ==
    /\ "update_combo_timer" \notin ran
    /\ game_data' =
         IF game_data.combo > 0
         THEN LET g == [game_data EXCEPT !.combo_timer = TickOnce(@, FrameDelta)]
              IN  IF g.combo_timer.finished THEN reset_combo(g) ELSE g
         ELSE game_data
    /\ Run("update_combo_timer")
    /\ UNCHANGED <<world, targets, total_area, spawn_timer, variety_timer, level_data, level_start,
                   commands, next_entity, kills, inputs>>

\* ---------------------------------------------------------------- rabbits

\* RabbitTargeting::claim_target: insert, replacing any earlier claim
claim_target(tg, rabbit, dandelion) ==
    [d \in (DOMAIN tg) \cup {dandelion} |-> IF d = dandelion THEN rabbit ELSE tg[d]]

\* RabbitTargeting::release_target
release_target(tg, dandelion) == Without(tg, {dandelion})

\* get_dandelion_size_bonus, in tenths
size_bonus_x10(size) == size_multiplier_x10(size)

\* score(a) > score(b) for score = 1000 / (distance + 1) * size_bonus
ScoresHigher(rabbit_pos, a, b) ==
    size_bonus_x10(dandelions[a].size) * (Distance(rabbit_pos, dandelions[b].pos) + 10)
        > size_bonus_x10(dandelions[b].size) * (Distance(rabbit_pos, dandelions[a].pos) + 10)

\* A fallback that takes any dandelion, however far.
FallbackAnywhere(rabbit_pos) == IF DOMAIN dandelions = {} THEN {NoEntity} ELSE DOMAIN dandelions

\* find_fallback_dandelion_target: any dandelion within 200 units, claimed or
\* not; {NoEntity} when there is none.
find_fallback_dandelion_target(rabbit_pos) ==
    LET close == {d \in DOMAIN dandelions : Within(rabbit_pos, dandelions[d].pos, FALLBACK_RADIUS)}
    IN  IF close = {} THEN {NoEntity} ELSE close

\* find_best_dandelion_target: the targets the rabbit may pick.  The first
\* pass keeps the dandelions no other rabbit has claimed and takes one of the
\* highest score (the first of them in iteration order).
find_best_dandelion_target(rabbit, rabbit_pos, tg) ==
    LET free == {d \in DOMAIN dandelions : d \notin DOMAIN tg \/ tg[d] = rabbit}
        best == {d \in free : \A e \in free : ~ScoresHigher(rabbit_pos, e, d)}
    IN  IF free = {} THEN find_fallback_dandelion_target(rabbit_pos) ELSE best

\* direction.normalize_or_zero() * speed * delta, added to the position
MoveTowards(from, to) ==
    LET dist == Distance(from, to)
        step == (RABBIT_SPEED * FrameDelta) \div 1000
    IN  IF dist = 0 THEN from
        ELSE <<from[1] + ((to[1] - from[1]) * step) \div dist,
               from[2] + ((to[2] - from[2]) * step) \div dist>>

\* A meal after which the rabbit stays, however many it has had.
EatingWithoutReproduction(st, r, target) ==
    [st EXCEPT
       !.targets = release_target(@, target),
       !.despawn = @ \cup {target},
       !.total_area = @ - visual_area(dandelions[target].size),
       !.game_data = KillAndCount(@),
       !.kills = @ \cup {[dandelion |-> target, by |-> "rabbit", who |-> r]},
       !.rabbits = [@ EXCEPT ![r] = [@ EXCEPT !.dandelions_eaten = @ + 1,
                                              !.target = NoEntity]]]

\* handle_rabbit_eating_dandelion, on the running state st of update_rabbits
handle_rabbit_eating_dandelion(st, r, target) ==
    LET fed == [st.rabbits[r] EXCEPT !.dandelions_eaten = @ + 1, !.target = NoEntity]
        eaten == [st EXCEPT
                    !.targets = release_target(@, target),
                    !.despawn = @ \cup {target},
                    !.total_area = @ - visual_area(dandelions[target].size),
                    !.game_data = KillAndCount(@),
                    !.kills = @ \cup {[dandelion |-> target, by |-> "rabbit", who |-> r]},
                    !.rabbits = [@ EXCEPT ![r] = fed]]
    IN  IF fed.dandelions_eaten >= REPRODUCE_AT
        THEN [eaten EXCEPT
                !.spawned = @ @@ spawn_rabbits(fed.pos, st.next),
                !.next = @ + RABBITS_PER_SPAWN,
                !.targets = clear_rabbit_targets(@, r),
                !.despawn = @ \cup {r}]
        ELSE eaten

\* A rabbit that eats only a dandelion on its last point of health.
MoveAndEatTheWeak(st, r) ==
    LET rabbit == st.rabbits[r]
        target == rabbit.target
    IN  IF target = NoEntity \/ target \notin DOMAIN dandelions THEN st
        ELSE LET moved == [st EXCEPT !.rabbits[r].pos =
                                        MoveTowards(rabbit.pos, dandelions[target].pos)]
             IN  IF /\ Within(rabbit.pos, dandelions[target].pos, RABBIT_EAT_DISTANCE)
                    /\ dandelions[target].health <= 1
                 THEN handle_rabbit_eating_dandelion(moved, r, target)
                 ELSE moved

\* The rest of one rabbit's turn once its target is settled: move, then eat
\* if the rabbit was within RABBIT_EAT_DISTANCE before the move.
MoveAndEat(st, r) ==
    LET rabbit == st.rabbits[r]
        target == rabbit.target
    IN  IF target = NoEntity \/ target \notin DOMAIN dandelions THEN st
        ELSE LET moved == [st EXCEPT !.rabbits[r].pos =
                                        MoveTowards(rabbit.pos, dandelions[target].pos)]
             IN  IF Within(rabbit.pos, dandelions[target].pos, RABBIT_EAT_DISTANCE)
                 THEN handle_rabbit_eating_dandelion(moved, r, target)
                 ELSE moved

\* A turn that looks for a target only when the rabbit has none, whether the
\* one it has still exists or not.
RabbitTurnKeepsTarget(st, r) ==
    LET ticked == [st.rabbits[r] EXCEPT !.lifetime = TickOnce(@, FrameDelta)]
        retarget == ticked.target = NoEntity
        choices == IF retarget THEN find_best_dandelion_target(r, ticked.pos, st.targets)
                   ELSE {ticked.target}
    IN  {MoveAndEat([st EXCEPT
                       !.rabbits[r] = [ticked EXCEPT !.target = t],
                       !.targets = IF retarget /\ t # NoEntity
                                   THEN claim_target(st.targets, r, t)
                                   ELSE st.targets], r) : t \in choices}

\* One rabbit's turn in the loop of update_rabbits: the set of outcomes.
RabbitTurn(st, r) ==
    LET ticked == [st.rabbits[r] EXCEPT !.lifetime = TickOnce(@, FrameDelta)]
        retarget == ticked.target = NoEntity \/ ticked.target \notin DOMAIN dandelions
        released == IF retarget /\ ticked.target # NoEntity
                    THEN release_target(st.targets, ticked.target)
                    ELSE st.targets
        choices == IF retarget THEN find_best_dandelion_target(r, ticked.pos, released)
                   ELSE {ticked.target}
    IN  {MoveAndEat([st EXCEPT
                       !.rabbits[r] = [ticked EXCEPT !.target = t],
                       !.targets = IF retarget /\ t # NoEntity
                                   THEN claim_target(released, r, t)
                                   ELSE released], r) : t \in choices}

\* The loop of update_rabbits over the rabbits in iteration order.
RECURSIVE RabbitLoop(_, _)
RabbitLoop(st, order) ==
    IF order = <<>> THEN {st}
    ELSE UNION {RabbitLoop(s, Tail(order)) : s \in RabbitTurn(st, Head(order))}

\* The orders in which the loop may visit the rabbits.  On a lawn without
\* dandelions no rabbit's turn depends on another's, and one order stands for
\* all.
RabbitOrders ==
    IF DOMAIN dandelions = {} THEN {SortedSeq(DOMAIN rabbits)} ELSE Orders(DOMAIN rabbits)

update_rabbits ==
    /\ "update_rabbits" \notin ran
    /\ \E order \in RabbitOrders :
         \E out \in RabbitLoop([rabbits |-> rabbits,
                                targets |-> Without(targets, (DOMAIN targets) \ DOMAIN dandelions),
                                game_data |-> game_data, total_area |-> total_area,
                                despawn |-> {}, spawned |-> EmptyMap,
                                next |-> next_entity, kills |-> {}], order) :
           /\ out.next - 1 <= MaxEntities
           /\ rabbits' = out.rabbits
           /\ targets' = out.targets
           /\ game_data' = out.game_data
           /\ total_area' = out.total_area
           /\ commands' = [commands EXCEPT !.despawn = @ \cup out.despawn,
                                           !.rabbits = @ @@ out.spawned]
           /\ next_entity' = out.next
           /\ kills' = kills \cup out.kills
    /\ Run("update_rabbits")
    /\ UNCHANGED <<dandelions, orbs, fires, spawn_timer, variety_timer, level_data, level_start, inputs>>

\* ------------------------------------------------------ merge and upgrade

\* pos1.distance(pos2) <= size.merge_radius()
InMergeRange(a, b) ==
    100 * DistSq(dandelions[a].pos, dandelions[b].pos)
        <= merge_radius_x10(dandelions[a].size) * merge_radius_x10(dandelions[a].size)

\* A pair loop that does not consult entities_to_remove.
RECURSIVE MergePairsNoSkip(_, _, _, _, _)
MergePairsNoSkip(order, i, j, removed, acc) ==
    IF i > Len(order) THEN acc
    ELSE IF j > Len(order) THEN MergePairsNoSkip(order, i + 1, i + 2, removed, acc)
    ELSE LET a == order[i]
             b == order[j]
         IN  IF /\ dandelions[a].size = dandelions[b].size
                /\ InMergeRange(a, b)
                /\ next_size(dandelions[a].size) # "None"
             THEN MergePairsNoSkip(order, i, j + 1, removed \cup {a, b}, Append(acc, <<a, b>>))
             ELSE MergePairsNoSkip(order, i, j + 1, removed, acc)

\* The pair loop of check_dandelion_merging over the collected Vec: to_merge,
\* given entities_to_remove (removed) and the pairs found so far (acc).
RECURSIVE MergePairs(_, _, _, _, _)
MergePairs(order, i, j, removed, acc) ==
    IF i > Len(order) THEN acc
    ELSE IF j > Len(order) THEN MergePairs(order, i + 1, i + 2, removed, acc)
    ELSE LET a == order[i]
             b == order[j]
         IN  IF /\ a \notin removed
                /\ b \notin removed
                /\ dandelions[a].size = dandelions[b].size
                /\ InMergeRange(a, b)
                /\ next_size(dandelions[a].size) # "None"
             THEN MergePairs(order, i, j + 1, removed \cup {a, b}, Append(acc, <<a, b>>))
             ELSE MergePairs(order, i, j + 1, removed, acc)

\* The change of total_area made by the merges of to_merge.
RECURSIVE MergeAreaDelta(_)
MergeAreaDelta(pairs) ==
    IF pairs = <<>> THEN 0
    ELSE visual_area(next_size(dandelions[Head(pairs)[1]].size))
           - 2 * visual_area(dandelions[Head(pairs)[1]].size)
           + MergeAreaDelta(Tail(pairs))

RECURSIVE SaturatingSub(_, _)
SaturatingSub(n, k) == IF k = 0 THEN n ELSE SaturatingSub(SaturatingDec(n), k - 1)

\* A merge that grows the first dandelion of the pair where it stands.
MergedAtFirst(pair) ==
    LET new_size == next_size(dandelions[pair[1]].size)
    IN  Dandelion(ScaledHealth(level_data, base_health(new_size)), new_size,
                  dandelions[pair[1]].pos)

\* The dandelion a merge creates
Merged(pair) ==
    LET new_size == next_size(dandelions[pair[1]].size)
    IN  Dandelion(ScaledHealth(level_data, base_health(new_size)), new_size,
                  Midpoint(dandelions[pair[1]].pos, dandelions[pair[2]].pos))

\* The dandelions that have a partner to merge with. The others never enter
\* a pair, so the place the query gives them in its iteration is immaterial.
MergeCandidates ==
    {a \in DOMAIN dandelions :
       /\ next_size(dandelions[a].size) # "None"
       /\ \E b \in (DOMAIN dandelions) \ {a} :
            dandelions[a].size = dandelions[b].size /\ InMergeRange(a, b)}

check_dandelion_merging ==
    /\ "check_dandelion_merging" \notin ran
    /\ \E order \in Orders(MergeCandidates) :
         LET to_merge == MergePairs(order, 1, 2, {}, <<>>)
             n == Len(to_merge)
             gone == UNION {{to_merge[k][1], to_merge[k][2]} : k \in 1..n}
         IN  /\ next_entity + n - 1 <= MaxEntities
             /\ commands' = [commands EXCEPT
                               !.despawn = @ \cup gone,
                               !.dandelions = @ @@
                                  [i \in next_entity .. (next_entity + n - 1) |->
                                     Merged(to_merge[i - next_entity + 1])]]
             /\ total_area' = total_area + MergeAreaDelta(to_merge)
             /\ game_data' = [game_data EXCEPT !.dandelion_count = SaturatingSub(@, n)]
             /\ kills' = kills \cup {[dandelion |-> d, by |-> "merge", who |-> NoEntity] : d \in gone}
             /\ next_entity' = next_entity + n
    /\ Run("check_dandelion_merging")
    /\ UNCHANGED <<world, targets, spawn_timer, variety_timer, level_data, level_start, inputs>>

\* An upgrade that wraps around at the top of the ladder.
UpgradedSizeWraps(size) == IF next_size(size) = "None" THEN "Tiny" ELSE next_size(size)

\* What a collision does to a stationary dandelion of this size: the size it
\* is upgraded to, or the same size when next_size() is None.
UpgradedSize(size) == IF next_size(size) = "None" THEN size ELSE next_size(size)

\* The loops of check_moving_dandelion_collisions: moving dandelion i of
\* morder against stationary dandelion j of sorder, on the running state st.
RECURSIVE Collide(_, _, _, _, _)
Collide(st, morder, sorder, i, j) ==
    IF i > Len(morder) THEN st
    ELSE IF dandelions[morder[i]].size # "Huge" \/ j > Len(sorder)
    THEN Collide(st, morder, sorder, i + 1, 1)
    ELSE IF st.upgrades >= MAX_UPGRADES_PER_FRAME THEN st
    ELSE LET s == sorder[j]
             old == st.ds[s].size
             new == UpgradedSize(old)
         IN  IF /\ Within(dandelions[morder[i]].pos, st.ds[s].pos,
                          collision_radius("Huge") + collision_radius(old))
                /\ new # old
             THEN Collide([st EXCEPT
                             !.ds[s].size = new,
                             !.area = @ - visual_area(old) + visual_area(new),
                             !.cooldown = @ \cup {s},
                             !.moving = IF new = "Huge" THEN @ \cup {s} ELSE @,
                             !.upgrades = @ + 1],
                          morder, sorder, i, j + 1)
             ELSE Collide(st, morder, sorder, i, j + 1)

check_moving_dandelion_collisions ==
    /\ "check_moving_dandelion_collisions" \notin ran
    /\ \E morder \in Orders({d \in DOMAIN dandelions : dandelions[d].moving}) :
       \E sorder \in Orders({d \in DOMAIN dandelions :
                               ~dandelions[d].moving /\ dandelions[d].cooldown = -1}) :
         LET out == Collide([ds |-> dandelions, area |-> total_area, cooldown |-> {},
                             moving |-> {}, upgrades |-> 0],
                            morder, sorder, 1, 1)
         IN  /\ dandelions' = out.ds
             /\ total_area' = out.area
             /\ commands' = [commands EXCEPT !.insert_cooldown = @ \cup out.cooldown,
                                             !.insert_moving = @ \cup out.moving]
    /\ Run("check_moving_dandelion_collisions")
    /\ UNCHANGED <<orbs, rabbits, fires, targets, game_data, spawn_timer, variety_timer, level_data,
                   level_start, next_entity, kills, inputs>>

update_upgrade_cooldowns ==
    /\ "update_upgrade_cooldowns" \notin ran
    /\ LET ticked == [d \in DOMAIN dandelions |->
                        IF dandelions[d].cooldown = -1 THEN dandelions[d]
                        ELSE [dandelions[d] EXCEPT
                                !.cooldown = Min(@ + FrameDelta, UPGRADE_COOLDOWN)]]
       IN  /\ dandelions' = ticked
           /\ commands' = [commands EXCEPT !.remove_cooldown =
                             @ \cup {d \in DOMAIN ticked : ticked[d].cooldown = UPGRADE_COOLDOWN}]
    /\ Run("update_upgrade_cooldowns")
    /\ UNCHANGED <<orbs, rabbits, fires, resources, next_entity, kills, inputs>>

\* What a moving dandelion may travel in one frame (50 units per second in
\* the direction it currently holds), along the x axis.
Drifts == {<<(MOVING_SPEED * FrameDelta) \div 1000, 0>>,
           <<0 - (MOVING_SPEED * FrameDelta) \div 1000, 0>>}

\* new_pos.clamp(bounds.min, bounds.max) on the x axis
ClampX(x) == IF x < 0 - LawnHalfWidth THEN 0 - LawnHalfWidth
             ELSE IF x > LawnHalfWidth THEN LawnHalfWidth ELSE x

update_moving_dandelions ==
    /\ "update_moving_dandelions" \notin ran
    /\ \E drift \in [{d \in DOMAIN dandelions : dandelions[d].moving} -> Drifts] :
         dandelions' = [d \in DOMAIN dandelions |->
                          IF dandelions[d].moving
                          THEN [dandelions[d] EXCEPT
                                  !.pos = <<ClampX(@[1] + drift[d][1]), @[2] + drift[d][2]>>]
                          ELSE dandelions[d]]
    /\ Run("update_moving_dandelions")
    /\ UNCHANGED <<orbs, rabbits, fires, resources, commands, next_entity, kills, inputs>>

\* ---------------------------------------------------------------- spawns

spawn_dandelions ==
    /\ "spawn_dandelions" \notin ran
    /\ LET rate == IF level_data.current_level \in LevelIds
                   THEN spawn_rate_multiplier_x10(level_data.current_level) ELSE 10
           ticked == TickRepeating(spawn_timer, (FrameDelta * rate) \div 10)
       IN  /\ spawn_timer' = ticked
           /\ IF ticked.just_finished
              THEN /\ next_entity <= MaxEntities
                   /\ \E pos \in Positions :
                        commands' = [commands EXCEPT !.dandelions = @ @@
                           [i \in {next_entity} |->
                              Dandelion(ScaledHealth(level_data, 1), "Tiny", pos)]]
                   /\ game_data' = [game_data EXCEPT !.dandelion_count = @ + 1]
                   /\ total_area' = total_area + visual_area("Tiny")
                   /\ next_entity' = next_entity + 1
              ELSE UNCHANGED <<commands, game_data, total_area, next_entity>>
    /\ Run("spawn_dandelions")
    /\ UNCHANGED <<world, targets, variety_timer, level_data, level_start, kills, inputs>>

\* The sizes of a variety pack, in the order the spawner creates them.
VarietySizes == <<"Tiny", "Small", "Medium", "Large", "Huge">>

\* Where the five dandelions of a pack may land: far apart from one another,
\* or with the Large one inside the reach of the Huge one.
VarietyLayouts ==
    {<<<<-1000, 0>>, <<-500, 0>>, <<0, 0>>, <<500, 0>>, <<1500, 0>>>>,
     <<<<-1000, 0>>, <<-500, 0>>, <<0, 0>>, <<500, 0>>, <<900, 0>>>>}

\* The score at which the spawner is switched on in the current level.
VarietyThreshold(ld) ==
    IF ld.current_level \in LevelIds THEN difficulty_threshold(ld.current_level)
    ELSE DEFAULT_VARIETY_THRESHOLD

\* The flag after the check at the head of spawn_variety_dandelions.
VarietyEnabled(vt, gd, ld) == vt.enabled \/ gd.score >= VarietyThreshold(ld)

\* The pack: one dandelion of each size, its health scaled by the level.
VarietyPack(ld, layout, first) ==
    [i \in first .. (first + Len(VarietySizes) - 1) |->
       Dandelion(ScaledHealth(ld, base_health(VarietySizes[i - first + 1])),
                 VarietySizes[i - first + 1], layout[i - first + 1])]

spawn_variety_dandelions ==
    /\ "spawn_variety_dandelions" \notin ran
    /\ LET enabled == VarietyEnabled(variety_timer, game_data, level_data)
           rate == IF level_data.current_level \in LevelIds
                   THEN spawn_rate_multiplier_x10(level_data.current_level) ELSE 10
           ticked == TickRepeating(variety_timer.timer, (FrameDelta * rate) \div 10)
       IN  IF ~enabled
           THEN UNCHANGED <<variety_timer, commands, game_data, total_area, next_entity>>
           ELSE /\ variety_timer' = [timer |-> ticked, enabled |-> TRUE]
                /\ IF ticked.just_finished
                   THEN /\ next_entity + Len(VarietySizes) - 1 <= MaxEntities
                        /\ \E layout \in VarietyLayouts :
                             LET pack == VarietyPack(level_data, layout, next_entity)
                             IN  /\ commands' = [commands EXCEPT !.dandelions = @ @@ pack]
                                 /\ total_area' = total_area + SumArea(pack, DOMAIN pack)
                        /\ game_data' = [game_data EXCEPT
                                           !.dandelion_count = @ + Len(VarietySizes)]
                        /\ next_entity' = next_entity + Len(VarietySizes)
                   ELSE UNCHANGED <<commands, game_data, total_area, next_entity>>
    /\ Run("spawn_variety_dandelions")
    /\ UNCHANGED <<world, targets, spawn_timer, level_data, level_start, kills, inputs>>

\* ------------------------------------------------------------ level start

\* A LevelStartEvent is written between two frames: by a level button of the
\* pause menu (for an unlocked level) or by the Continue button.
write_level_start ==
    /\ game_state = "Playing"
    /\ ran = {}
    /\ presses < MaxPresses
    /\ level_start = <<>>
    /\ \E level_id \in LevelIds :
         /\ is_level_unlocked(level_data, level_id)
         /\ level_start' = <<level_id>>
         /\ level_events' = [level_events EXCEPT !.start = Append(@, level_id)]
    /\ presses' = presses + 1
    /\ UNCHANGED <<world, targets, total_area, game_data, spawn_timer, variety_timer, level_data, commands,
                   next_entity, ran, kills, clicks, app,
                   pause_state, next_state, level_session, overlay>>

\* GameData after the resets of one LevelStartEvent
LevelReset(gd) ==
    [gd EXCEPT !.score = 0, !.combo = 0, !.combo_timer = ResetTimer(@), !.dandelion_count = 0]

\* LevelData after set_current_level for each event in turn.
RECURSIVE SelectAll(_, _)
SelectAll(ld, events) ==
    IF events = <<>> THEN ld
    ELSE SelectAll(set_current_level(ld, Head(events)), Tail(events))

handle_level_start_events ==
    /\ "handle_level_start_events" \notin ran
    /\ IF level_start = <<>>
       THEN UNCHANGED <<commands, game_data, level_data, level_start, overlay>>
       ELSE /\ overlay' = [overlay EXCEPT !.visible = FALSE]
            /\ commands' = [commands EXCEPT !.despawn =
                   @ \cup DOMAIN dandelions \cup DOMAIN orbs \cup DOMAIN rabbits \cup DOMAIN fires]
            /\ game_data' = LevelReset(game_data)
            /\ level_data' = SelectAll(level_data, level_start)
            /\ level_start' = <<>>
    /\ pause_state = "Playing"
    /\ RunSystem("handle_level_start_events")
    /\ UNCHANGED <<next_state, level_session, level_events>>
    /\ UNCHANGED <<world, targets, total_area, spawn_timer, variety_timer, next_entity, kills, inputs>>

\* ------------------------------------------------- leaving and entering

\* A cleanup that reaches the dandelions but not the seed orbs.
DandelionEntitiesOnly == DOMAIN dandelions

\* Query<Entity, With<EnemyEntity>>: dandelions and seed orbs (and their
\* health bars and merge effects)
EnemyEntities == (DOMAIN dandelions) \cup (DOMAIN orbs)

\* Query<Entity, With<PowerupEntity>>: rabbits and fires (and powerups)
PowerupEntities == (DOMAIN rabbits) \cup (DOMAIN fires)

\* OnExit(GameState::Playing), entered by the Restart Game button of the pause
\* menu or by Continue after the last level: cleanup_enemies, cleanup_powerups
\* and cleanup_game run between two frames and their commands are applied.
\* The values of the removed resources are left as they were; only `inserted`
\* tells that they are gone.
OnExitPlaying ==
    /\ game_state = "Playing"
    /\ ran = {}
    /\ clicks < MaxClicks
    /\ LET despawned == EnemyEntities \cup PowerupEntities
       IN  /\ dandelions' = Without(dandelions, despawned)
           /\ orbs' = Without(orbs, despawned)
           /\ rabbits' = Without(rabbits, despawned)
           /\ fires' = Without(fires, despawned)
    /\ targets' = EmptyMap
    /\ inserted' = ((inserted \ EnemyResources) \ PowerupResources) \ GameResources
    /\ game_state' = "Menu"
    /\ pause_state' = "Playing"
    /\ overlay' = NoOverlay
    /\ clicks' = clicks + 1
    /\ UNCHANGED <<total_area, game_data, spawn_timer, variety_timer, level_data, level_start, commands,
                   next_entity, ran, kills, presses, schedule,
                   next_state, level_session, level_events>>

\* The menu's Play button or Space/Enter, then OnEnter(GameState::Playing):
\* setup_enemy_timer, setup_area_tracker, setup_variety_spawner,
\* setup_powerup_resources and setup_game_resources.
OnEnterPlaying ==
    /\ game_state = "Menu"
    /\ level_data' = set_current_level(level_data, 1)
    /\ level_start' = <<1>>
    /\ spawn_timer' = NewTimer(SPAWN_INTERVAL)
    /\ variety_timer' = NewVarietySpawnTimer
    /\ total_area' = 0
    /\ targets' = EmptyMap
    /\ game_data' = NewGameData
    /\ inserted' = inserted \cup PlayingResources
    /\ game_state' = "Playing"
    /\ level_session' = NewLevelSession
    /\ level_events' = [level_events EXCEPT !.start = Append(@, 1)]
    /\ overlay' = NoOverlay
    /\ UNCHANGED <<world, commands, next_entity, ran, kills, inputs, schedule,
                   pause_state, next_state>>

\* ------------------------------------------------------- initial states

\* A lawn: the dandelions standing when the run starts, as <<size, position>>.
\* The game is in level 1, its score ledger as GameData::new() leaves it, and
\* the counters agree with the lawn.
InitRun(lawn, tracked) ==
    /\ dandelions = [i \in 1..Len(lawn) |->
                       Dandelion(ScaledHealth(NewLevelData, base_health(lawn[i][1])),
                                 lawn[i][1], lawn[i][2])]
    /\ orbs = EmptyMap
    /\ rabbits = EmptyMap
    /\ fires = EmptyMap
    /\ targets = EmptyMap
    /\ total_area = SumArea(dandelions, DOMAIN dandelions)
    /\ game_data = [NewGameData EXCEPT !.dandelion_count = Len(lawn)]
    /\ spawn_timer = NewTimer(SPAWN_INTERVAL)
    /\ variety_timer = NewVarietySpawnTimer
    /\ level_data = NewLevelData
    /\ level_start = <<>>
    /\ commands = NoCommands
    /\ next_entity = Len(lawn) + 1
    /\ ran = {}
    /\ kills = {}
    /\ presses = 0
    /\ clicks = 0
    /\ game_state = "Playing"
    /\ inserted = PlayingResources
    /\ schedule = IF tracked THEN NewSchedule ELSE NoSchedule
    /\ FreshSession

InitLawn(lawn) == InitRun(lawn, FALSE)

\* ------------------------------------------------- fire chain reactions

\* Six dandelions in a row, each within FIRE_RADIUS of the next only; and a
\* tight cluster that one fire burns at once.
FireLawns ==
    {<<<<"Tiny", <<900, 0>>>>, <<"Small", <<1800, 0>>>>, <<"Tiny", <<2700, 0>>>>,
       <<"Medium", <<3600, 0>>>>, <<"Tiny", <<4500, 0>>>>, <<"Large", <<5400, 0>>>>>>,
     <<<<"Tiny", <<0, 0>>>>, <<"Tiny", <<160, 0>>>>, <<"Small", <<900, 0>>>>>>}

FireSystems == {"handle_debug_keys", "update_fire_system", "cleanup_expired_entities"}

InitFire == \E lawn \in FireLawns : InitLawn(lawn)

NextFire ==
    \/ NoDebugKey
    \/ press_fire_key
    \/ update_fire_system
    \/ cleanup_expired_entities
    \/ EndFrame(FireSystems)

SpecFire == InitFire /\ [][NextFire]_vars

\* Every fire there is: the live ones and the ones spawned in this frame.
AllFires == fires @@ commands.fires

\* C3: every fire has a generation of at most MAX_GENERATION, a fire lit by a
\* powerup has generation 0, and the generation of a chain fire is one more
\* than the generation of the fire whose kill created it.
C3_GenerationBounded ==
    \A f \in DOMAIN AllFires :
        /\ AllFires[f].generation \in 0..MAX_GENERATION
        /\ AllFires[f].generation =
             IF AllFires[f].origin = NoEntity THEN 0 ELSE AllFires[f].parent + 1

\* A chain has reached the last generation.
C3_Witness == \E f \in DOMAIN fires : fires[f].generation = MAX_GENERATION /\ fires[f].parent = 4

\* The fire kills and the chain fires of the update_fire_system step.
NewFireKills == {k \in kills' \ kills : k.by = "fire"}
NewChainFires(d) ==
    {f \in (DOMAIN commands'.fires) \ DOMAIN commands.fires : commands'.fires[f].origin = d}

\* C4: a dandelion killed by a fire of generation g < MAX_GENERATION causes
\* exactly one chain fire, of generation g + 1, at the position of the killed
\* dandelion; a dandelion killed by a fire of generation MAX_GENERATION
\* causes none.
C4_ChainFirePerKill ==
    [][\A k \in NewFireKills :
          IF fires[k.who].generation < MAX_GENERATION
          THEN /\ Cardinality(NewChainFires(k.dandelion)) = 1
               /\ \A f \in NewChainFires(k.dandelion) :
                    /\ commands'.fires[f].generation = fires[k.who].generation + 1
                    /\ commands'.fires[f].pos = dandelions[k.dandelion].pos
          ELSE NewChainFires(k.dandelion) = {}]_vars

\* A fire of the last generation has killed a dandelion.
C4_Witness ==
    \E k \in kills : k.by = "fire" /\ k.who \in DOMAIN fires
                     /\ fires[k.who].generation = MAX_GENERATION

\* -------------------------------------------------------------- rabbits

\* A bare lawn, a single dandelion, two dandelions on either side of the
\* origin, and a single dandelion more than 200 units from every cursor.
RabbitLawns ==
    {<<>>,
     <<<<"Tiny", <<300, 0>>>>>>,
     <<<<"Tiny", <<300, 0>>>>, <<"Small", <<-400, 0>>>>>>,
     <<<<"Tiny", <<3500, 0>>>>>>}

RabbitSystems == {"handle_debug_keys", "update_rabbits", "cleanup_expired_entities"}

InitRabbit == \E lawn \in RabbitLawns : InitLawn(lawn)

NextRabbit ==
    \/ NoDebugKey
    \/ press_bunny_key
    \/ update_rabbits
    \/ cleanup_expired_entities
    \/ EndFrame(RabbitSystems)

SpecRabbit == InitRabbit /\ [][NextRabbit]_vars

\* The rabbits that are alive and not queued for despawn.
LiveRabbits == (DOMAIN rabbits) \ commands.despawn

\* C2: no two live rabbits have the same live dandelion as current target.
C2_OneRabbitPerTarget ==
    \A r1, r2 \in LiveRabbits :
        (r1 # r2 /\ rabbits[r1].target \in DOMAIN dandelions)
            => rabbits[r1].target # rabbits[r2].target

\* C9: on a lawn where no dandelion ever stood, at every frame boundary no
\* rabbit has a target, no rabbit whose lifetime has expired in an earlier
\* frame is still alive, and the registry holds no claim.
C9_BareLawnRabbitExpires ==
    (ran = {} /\ DOMAIN dandelions = {} /\ game_data.score = 0)
        => /\ \A r \in DOMAIN rabbits :
                /\ rabbits[r].target = NoEntity
                /\ ~(rabbits[r].lifetime.finished /\ ~rabbits[r].lifetime.just_finished)
           /\ DOMAIN targets = {}

\* ------------------------------------------------------ merge and upgrade

\* Three Tiny dandelions within merge range of one another; two Huge ones in
\* merge range that both touch a Large one; dandelions of different tiers that
\* merge by stages.
MergeLawns ==
    {<<<<"Tiny", <<0, 0>>>>, <<"Tiny", <<160, 0>>>>, <<"Tiny", <<80, 100>>>>>>,
     <<<<"Huge", <<0, 0>>>>, <<"Huge", <<250, 0>>>>, <<"Large", <<600, 0>>>>>>,
     <<<<"Tiny", <<0, 0>>>>, <<"Small", <<100, 0>>>>, <<"Tiny", <<150, 0>>>>>>}

MergeSystems == {"check_dandelion_merging", "update_moving_dandelions",
                 "check_moving_dandelion_collisions", "update_upgrade_cooldowns"}

InitMerge == \E lawn \in MergeLawns : InitLawn(lawn)

NextMerge ==
    \/ check_dandelion_merging
    \/ update_moving_dandelions
    \/ check_moving_dandelion_collisions
    \/ update_upgrade_cooldowns
    \/ EndFrame(MergeSystems)

SpecMerge == InitMerge /\ [][NextMerge]_vars

\* The step is the merge pass of the frame.
MergeStep == "check_dandelion_merging" \notin ran /\ "check_dandelion_merging" \in ran'

\* The dandelions the merge pass of this step removes and the ones it creates.
MergedAway == {k.dandelion : k \in {x \in kills' \ kills : x.by = "merge"}}
MergeCreated == (DOMAIN commands'.dandelions) \ DOMAIN commands.dandelions

\* Two distinct dandelions of the same tier below Huge within merge range.
Mergeable(a, b) ==
    /\ a # b
    /\ dandelions[a].size = dandelions[b].size
    /\ dandelions[a].size # "Huge"
    /\ InMergeRange(a, b)

RECURSIVE SumNewArea(_, _)
SumNewArea(ds, S) ==
    IF S = {} THEN 0
    ELSE LET x == CHOOSE y \in S : TRUE
         IN  visual_area(ds[x].size) + SumNewArea(ds, S \ {x})

CollisionStep ==
    /\ "check_moving_dandelion_collisions" \notin ran
    /\ "check_moving_dandelion_collisions" \in ran'

\* C7: a merge pass never removes a Huge dandelion, and when the only
\* dandelions in merge range of one another are Huge it changes neither the
\* entities nor total_area, dandelion_count or the score; a collision pass
\* leaves a Huge dandelion as it is, and upgrades no dandelion past Huge:
\* total_area changes by exactly the area the upgraded dandelions gained.
C7_HugeNeverMerges ==
    [][/\ MergeStep =>
            /\ \A d \in MergedAway : dandelions[d].size # "Huge"
            /\ (\A a, b \in DOMAIN dandelions : ~Mergeable(a, b))
                  => UNCHANGED <<commands, total_area, game_data, dandelions>>
       /\ CollisionStep =>
            /\ \A d \in DOMAIN dandelions :
                  dandelions[d].size = "Huge" =>
                     /\ dandelions'[d] = dandelions[d]
                     /\ d \in commands'.insert_cooldown => d \in commands.insert_cooldown
            /\ total_area' - total_area =
                  SumArea(dandelions', DOMAIN dandelions) - SumArea(dandelions, DOMAIN dandelions)
            /\ UNCHANGED game_data]_vars

\* The merge pass of the frame has run over two Huge dandelions in merge
\* range, and the collision pass has upgraded a dandelion to Huge that two
\* moving Huge dandelions were touching.
C7_Witness ==
    /\ "check_dandelion_merging" \in ran
    /\ "check_moving_dandelion_collisions" \in ran
    /\ \E a, b \in DOMAIN dandelions :
         /\ a # b
         /\ dandelions[a].size = "Huge" /\ dandelions[b].size = "Huge"
         /\ dandelions[a].moving /\ dandelions[b].moving
         /\ InMergeRange(a, b)
         /\ {a, b} \cap commands.despawn = {}
         /\ \E d \in commands.insert_moving :
              /\ Within(dandelions[a].pos, dandelions[d].pos, 2 * collision_radius("Huge"))
              /\ Within(dandelions[b].pos, dandelions[d].pos, 2 * collision_radius("Huge"))

\* ------------------------------------------- clicks, seeds and level start

PlayLawns ==
    {<<<<"Tiny", <<0, 0>>>>, <<"Small", <<160, 0>>>>>>,
     <<<<"Tiny", <<0, 0>>>>, <<"Tiny", <<900, 0>>>>>>}

PlaySystems == {"handle_game_input", "handle_dandelion_clicks", "update_seed_orbs",
                "handle_level_start_events", "update_combo_timer"}

InitPlay == \E lawn \in PlayLawns : InitLawn(lawn)

NextPlay ==
    \/ NoGameInput
    \/ toggle_slash_mode
    \/ NoClick
    \/ handle_dandelion_clicks
    \/ update_seed_orbs
    \/ write_level_start
    \/ handle_level_start_events
    \/ update_combo_timer
    \/ EndFrame(PlaySystems)

SpecPlay == InitPlay /\ [][NextPlay]_vars

\* C1: at every frame boundary total_area is the sum of visual_area over the
\* live dandelions.
C1_AreaMatchesLawn ==
    ran = {} => total_area = SumArea(dandelions, DOMAIN dandelions)

\* The step is a click or a slash.
ClickStep == "handle_dandelion_clicks" \notin ran /\ clicks' = clicks + 1

\* The dandelions the click of this step hit, and those it destroyed.
ClickHit == {d \in DOMAIN dandelions : dandelions'[d].health # dandelions[d].health}
ClickDead == {d \in ClickHit : dandelions'[d].health = 0}

RECURSIVE SumSpawnCount(_)
SumSpawnCount(S) ==
    IF S = {} THEN 0
    ELSE LET x == CHOOSE y \in S : TRUE
         IN  spawn_count(dandelions[x].size) + SumSpawnCount(S \ {x})

\* 10 * (combo + 1) + ... + 10 * (combo + n)
RECURSIVE ComboPoints(_, _)
ComboPoints(combo, n) ==
    IF n = 0 THEN 0 ELSE DANDELION_POINTS * (combo + n) + ComboPoints(combo, n - 1)

\* C5: a click or slash destroys every dandelion whose health it brings to 0
\* and in the same step emits spawn_count(size) seed orbs for it, takes its
\* visual_area off total_area, takes 1 off dandelion_count and records one
\* kill (combo + 1, score + 10 * new combo); a hit that leaves health above 0
\* changes only the health.
C5_ClickDestroys ==
    [][ClickStep =>
         /\ ClickDead \subseteq commands'.despawn
         /\ Cardinality((DOMAIN commands'.orbs) \ DOMAIN commands.orbs) = SumSpawnCount(ClickDead)
         /\ total_area' = total_area - SumArea(dandelions, ClickDead)
         /\ game_data'.dandelion_count = game_data.dandelion_count - Cardinality(ClickDead)
         /\ game_data'.combo = game_data.combo + Cardinality(ClickDead)
         /\ game_data'.score = game_data.score + ComboPoints(game_data.combo, Cardinality(ClickDead))
         /\ ClickDead = {} => UNCHANGED <<total_area, game_data, commands>>]_vars

\* ------------------------------------------------------ double destruction

\* The destructions by click, rabbit or fire that this step performs.
NewKills == {k \in kills' \ kills : k.by # "merge"}

\* Of those, the dandelions that had not been destroyed earlier in the frame.
FirstDestroyed ==
    {k.dandelion : k \in NewKills} \ (commands.despawn \cup {k.dandelion : k \in kills})

\* C8: destroying a dandelion that is already destroyed is a no-op: a step
\* that destroys dandelions changes the score, the combo, total_area and
\* dandelion_count by what one destruction of each not yet destroyed
\* dandelion accounts for.
C8_SecondDestructionNoOp ==
    [][NewKills # {} =>
         /\ game_data'.combo = game_data.combo + Cardinality(FirstDestroyed)
         /\ game_data'.score =
               game_data.score + ComboPoints(game_data.combo, Cardinality(FirstDestroyed))
         /\ total_area' = total_area - SumArea(dandelions, FirstDestroyed)
         /\ game_data'.dandelion_count =
               game_data.dandelion_count - Cardinality(FirstDestroyed)]_vars

\* ------------------------------------------------------- the combo ledger

\* The longest combo and the highest score at which the ledger still records
\* a kill.
MaxCombo == 18
MaxScore == 2000

\* One destruction recorded by GameData::add_dandelion_kill
record_kill ==
    /\ game_data.combo < MaxCombo
    /\ game_data.score < MaxScore
    /\ game_data' = add_dandelion_kill(game_data)
    /\ UNCHANGED <<world, targets, total_area, spawn_timer, variety_timer, level_data, level_start,
                   commands, next_entity, ran, kills, inputs, app, session>>

InitCombo == InitLawn(<<>>)

NextCombo ==
    \/ record_kill
    \/ update_combo_timer
    \/ EndFrame({"update_combo_timer"})

SpecCombo == InitCombo /\ [][NextCombo]_vars

\* C10: the k-th consecutive kill adds 10 * k to the score, and the grace
\* period it starts is at least the one the kill before it started and at
\* most MAX_COMBO_TIME.
C10_ComboScoring ==
    [][game_data'.combo = game_data.combo + 1 =>
         /\ game_data'.score = game_data.score + DANDELION_POINTS * game_data'.combo
         /\ game_data'.combo_timer.elapsed = 0
         /\ game_data'.combo_timer.duration <= MAX_COMBO_TIME
         /\ game_data.combo >= 1 =>
               game_data'.combo_timer.duration >= game_data.combo_timer.duration]_vars

\* The combo has grown to where the grace period reaches the cap.
C10_Witness ==
    /\ game_data.combo = 16
    /\ game_data.score = 1360
    /\ game_data.combo_timer.duration = MAX_COMBO_TIME

\* ------------------------------------------------------- the whole game

\* Every system of the Update schedule that the model covers.
Systems == FireSystems \cup RabbitSystems \cup MergeSystems \cup PlaySystems
               \cup {"spawn_dandelions"}

\* The state setup_game_resources and the OnEnter systems leave behind.
Init == InitLawn(<<>>)

Next ==
    \/ NoGameInput
    \/ toggle_slash_mode
    \/ NoClick
    \/ handle_dandelion_clicks
    \/ NoDebugKey
    \/ press_fire_key
    \/ press_bunny_key
    \/ spawn_dandelions
    \/ update_seed_orbs
    \/ check_dandelion_merging
    \/ update_moving_dandelions
    \/ check_moving_dandelion_collisions
    \/ update_upgrade_cooldowns
    \/ update_rabbits
    \/ update_fire_system
    \/ cleanup_expired_entities
    \/ update_combo_timer
    \/ write_level_start
    \/ handle_level_start_events
    \/ OnExitPlaying
    \/ OnEnterPlaying
    \/ EndFrame(Systems)

Spec == Init /\ [][Next]_vars

\* ---------------------------------------------------- combo timer expiry

\* The step is the combo timer system of the frame.
ComboTimerStep == "update_combo_timer" \notin ran /\ "update_combo_timer" \in ran'

\* The combo timer of the pre-state runs out within this frame.
ComboExpires ==
    game_data.combo_timer.elapsed + FrameDelta >= game_data.combo_timer.duration

\* C11: the combo timer counts down only while combo > 0; when it runs out
\* the combo becomes 0 and the timer is re-armed with INITIAL_COMBO_TIME, the
\* score unchanged; every kill restarts the timer from zero elapsed.
C11_ComboExpiry ==
    [][/\ ComboTimerStep =>
            /\ game_data'.score = game_data.score
            /\ game_data.combo = 0 => game_data' = game_data
            /\ (game_data.combo > 0 /\ ComboExpires) =>
                  /\ game_data'.combo = 0
                  /\ game_data'.combo_timer = NewTimer(INITIAL_COMBO_TIME)
            /\ (game_data.combo > 0 /\ ~ComboExpires) =>
                  /\ game_data'.combo = game_data.combo
                  /\ game_data'.combo_timer.elapsed = game_data.combo_timer.elapsed + FrameDelta
                  /\ game_data'.combo_timer.duration = game_data.combo_timer.duration
       /\ game_data'.combo > game_data.combo =>
            /\ game_data'.combo_timer.elapsed = 0
            /\ ~game_data'.combo_timer.finished]_vars

\* A combo whose grace period was longer than the initial one has expired.
C11_Witness ==
    /\ "update_combo_timer" \in ran
    /\ game_data.combo = 0
    /\ game_data.score >= 30
    /\ game_data.combo_timer = NewTimer(INITIAL_COMBO_TIME)

\* ------------------------------------------------------ clicks and slashes

\* Lawns for clicking: overlapping circles under the cursor, a dandelion that
\* only the slash reaches, one out of reach, and one that survives a hit.
ClickLawns ==
    {<<<<"Tiny", <<0, 0>>>>, <<"Small", <<160, 0>>>>, <<"Tiny", <<300, 200>>>>>>,
     <<<<"Medium", <<0, 0>>>>, <<"Tiny", <<900, 0>>>>>>}

ClickSystems == {"handle_game_input", "handle_dandelion_clicks", "update_seed_orbs"}

InitClick == \E lawn \in ClickLawns : InitLawn(lawn)

NextClick ==
    \/ NoGameInput
    \/ toggle_slash_mode
    \/ NoClick
    \/ handle_dandelion_clicks
    \/ update_seed_orbs
    \/ EndFrame(ClickSystems)

SpecClick == InitClick /\ [][NextClick]_vars

\* The dandelions this step queues for despawning.
NewlyDespawned == (DOMAIN dandelions) \cap (commands'.despawn \ commands.despawn)

\* C12: at every frame boundary each live dandelion has health >= 1, and a
\* click or slash destroys a dandelion exactly when it brings its health
\* from above 0 to 0.
C12_HealthAndDestruction ==
    /\ [](ran = {} => \A d \in DOMAIN dandelions : dandelions[d].health >= 1)
    /\ [][ClickStep =>
            \A d \in DOMAIN dandelions :
               d \in NewlyDespawned <=>
                  (dandelions[d].health >= 1 /\ dandelions'[d].health = 0)]_vars

\* One slash has destroyed a dandelion and wounded another, which lives on.
C12_Witness ==
    /\ \E d \in DOMAIN dandelions :
         dandelions[d].health = 0 /\ d \in commands.despawn
    /\ \E d \in DOMAIN dandelions :
         /\ dandelions[d].health >= 1
         /\ dandelions[d].health < base_health(dandelions[d].size)
         /\ d \notin commands.despawn

\* Points along the slash through click_pos, one world unit apart on each axis.
SlashSamples(click_pos) ==
    {<<click_pos[1] + DEFAULT_SLASH_OFFSET - 10 * t,
       click_pos[2] + DEFAULT_SLASH_OFFSET - 10 * t>> :
         t \in 0 .. ((2 * DEFAULT_SLASH_OFFSET) \div 10)}

\* The dandelion's collision circle holds a point of the slash.
OnSlash(d, click_pos) ==
    \E p \in SlashSamples(click_pos) :
       DistSq(p, dandelions[d].pos)
          <= collision_radius(dandelions[d].size) * collision_radius(dandelions[d].size)

\* The dandelion's collision circle holds the click point.
UnderClick(d, click_pos) ==
    DistSq(click_pos, dandelions[d].pos)
       <= collision_radius(dandelions[d].size) * collision_radius(dandelions[d].size)

\* C19: with slash_mode off a click damages at most one dandelion, one whose
\* collision circle contains the click point (and one is damaged whenever
\* some circle contains it); with slash_mode on it damages exactly the
\* dandelions whose circle meets the slash segment; every dandelion damaged
\* loses exactly 1 health.
C19_ClickOrSlash ==
    [][ClickStep =>
         /\ \A d \in ClickHit : dandelions'[d].health = dandelions[d].health - 1
         /\ \E click_pos \in Cursors :
              IF game_data.slash_mode
              THEN ClickHit = {d \in DOMAIN dandelions : OnSlash(d, click_pos)}
              ELSE /\ Cardinality(ClickHit) <= 1
                   /\ \A d \in ClickHit : UnderClick(d, click_pos)
                   /\ (\E d \in DOMAIN dandelions : UnderClick(d, click_pos)) => ClickHit # {}]_vars

\* The first click of the run was a slash that damaged three dandelions, two
\* of which lie too far apart for any point to be inside both circles.
C19_Witness ==
    /\ clicks = 1
    /\ "handle_dandelion_clicks" \in ran
    /\ game_data.slash_mode
    /\ presses = 0
    /\ Cardinality({d \in DOMAIN dandelions :
                      dandelions[d].health < base_health(dandelions[d].size)}) = 3

\* ------------------------------------------------------- tiers and merges

\* The position of a tier on the size ladder.
Rank(size) ==
    CASE size = "Tiny" -> 1
      [] size = "Small" -> 2
      [] size = "Medium" -> 3
      [] size = "Large" -> 4
      [] size = "Huge" -> 5

\* C13: the tier of a dandelion entity changes only in a collision pass, only
\* upwards along the size ladder, and never once it is Huge.
C13_TierNeverDecreases ==
    [][\A d \in (DOMAIN dandelions) \cap (DOMAIN dandelions') :
          dandelions'[d].size # dandelions[d].size =>
             /\ CollisionStep
             /\ dandelions[d].size # "Huge"
             /\ Rank(dandelions'[d].size) > Rank(dandelions[d].size)]_vars

\* A dandelion has been upgraded in place to Huge by the collision pass of
\* this frame and is waiting for its cooldown and its MovingDandelion.
C13_Witness ==
    \E d \in DOMAIN dandelions :
       /\ dandelions[d].size = "Huge"
       /\ ~dandelions[d].moving
       /\ d \in commands.insert_cooldown
       /\ d \in commands.insert_moving

\* Three dandelions pairwise in merge range, and no other dandelion that
\* could merge with one of them.
LoneTriple(a, b, c) ==
    /\ Mergeable(a, b) /\ Mergeable(a, c) /\ Mergeable(b, c)
    /\ \A x \in DOMAIN dandelions \ {a, b, c} :
          ~Mergeable(a, x) /\ ~Mergeable(b, x) /\ ~Mergeable(c, x)

\* C20: a merge pass removes exactly two dandelions per dandelion it creates,
\* so none takes part in two merges; of three same-tier dandelions pairwise
\* in merge range exactly two are merged and the third is neither despawned
\* nor changed by the pass.
C20_OneMergeEach ==
    [][MergeStep =>
         /\ Cardinality(MergedAway) = 2 * Cardinality(MergeCreated)
         /\ \A a, b, c \in DOMAIN dandelions :
               LoneTriple(a, b, c) =>
                  /\ Cardinality({a, b, c} \cap MergedAway) = 2
                  /\ \E s \in {a, b, c} \ MergedAway :
                        /\ s \notin commands'.despawn
                        /\ dandelions'[s] = dandelions[s]
                  /\ \E n \in MergeCreated :
                        /\ commands'.dandelions[n].size = next_size(dandelions[a].size)
                        /\ \A m \in MergeCreated :
                              m # n => commands'.dandelions[m].pos
                                          \notin {Midpoint(dandelions[a].pos, dandelions[b].pos),
                                                  Midpoint(dandelions[a].pos, dandelions[c].pos),
                                                  Midpoint(dandelions[b].pos, dandelions[c].pos)}]_vars

\* The merge pass has run over a lawn of exactly three Tiny dandelions close
\* together: one Small is queued, two Tiny are queued for despawning and the
\* third is not.
C20_Witness ==
    /\ "check_dandelion_merging" \in ran
    /\ DOMAIN dandelions = {1, 2, 3}
    /\ \A d \in DOMAIN dandelions : dandelions[d].size = "Tiny"
    /\ LoneTriple(1, 2, 3)
    /\ Cardinality(commands.despawn \cap {1, 2, 3}) = 2
    /\ \E n \in DOMAIN commands.dandelions :
          /\ DOMAIN commands.dandelions = {n}
          /\ commands.dandelions[n].size = "Small"

\* ------------------------------------------------- leaving and entering

\* A run in progress with a way out to the menu and back.  It starts at the
\* frame boundary after the frame in which the player, the cursor on the only
\* dandelion (a Tiny one at the origin), clicked it away and pressed B and F:
\* its two seed orbs are in flight, three rabbits and a fire have just been
\* spawned, and the kill is on the ledger.
SessionSystems == {"update_seed_orbs", "update_rabbits", "update_fire_system",
                   "cleanup_expired_entities", "handle_level_start_events"}

InitSession ==
    /\ dandelions = [i \in {} |-> Dandelion(1, "Tiny", <<0, 0>>)]
    /\ orbs = [i \in 1 .. spawn_count("Tiny") |->
                 SeedOrb(<<0, 0>>, IF i = 1 THEN <<600, 0>> ELSE <<0, 800>>)]
    /\ rabbits = spawn_rabbits(<<0, 0>>, spawn_count("Tiny") + 1)
    /\ fires = [i \in {spawn_count("Tiny") + RABBITS_PER_SPAWN + 1} |->
                  spawn_fire_ignition_with_generation(<<0, 0>>, 0, -1, NoEntity)]
    /\ targets = EmptyMap
    /\ total_area = 0
    /\ game_data = add_dandelion_kill(NewGameData)
    /\ spawn_timer = NewTimer(SPAWN_INTERVAL)
    /\ variety_timer = NewVarietySpawnTimer
    /\ level_data = NewLevelData
    /\ level_start = <<>>
    /\ commands = NoCommands
    /\ next_entity = spawn_count("Tiny") + RABBITS_PER_SPAWN + 2
    /\ ran = {}
    /\ kills = {}
    /\ presses = 0
    /\ clicks = 0
    /\ game_state = "Playing"
    /\ inserted = PlayingResources
    /\ schedule = NoSchedule
    /\ FreshSession

NextSession ==
    \/ update_seed_orbs
    \/ update_rabbits
    \/ update_fire_system
    \/ cleanup_expired_entities
    \/ handle_level_start_events
    \/ OnExitPlaying
    \/ OnEnterPlaying
    \/ EndFrame(SessionSystems)

SpecSession == InitSession /\ [][NextSession]_vars

\* C14: while the game is in the menu no dandelion, seed orb, rabbit or fire
\* exists, the targeting registry is empty and none of the resources of the
\* Playing state is in the world; the step that enters Playing again leaves
\* the area tracker at 0, the registry and the fires empty, and score, combo
\* and dandelion_count at 0.
C14_CleanExitFreshEntry ==
    /\ [](game_state = "Menu" =>
            /\ DOMAIN dandelions = {} /\ DOMAIN orbs = {}
            /\ DOMAIN rabbits = {} /\ DOMAIN fires = {}
            /\ DOMAIN targets = {}
            /\ inserted \cap PlayingResources = {})
    /\ [][(game_state = "Menu" /\ game_state' = "Playing") =>
            /\ inserted' = PlayingResources
            /\ total_area' = 0
            /\ DOMAIN targets' = {}
            /\ DOMAIN fires' = {} /\ DOMAIN commands'.fires = {}
            /\ game_data'.score = 0
            /\ game_data'.combo = 0
            /\ game_data'.dandelion_count = 0
            /\ DOMAIN dandelions' = {}]_vars

\* The game is back in the menu, left in the frame after the fire had burnt
\* the dandelions grown from the seed orbs, while the rabbits and the fires
\* were still within their lifetime: the ledger left behind shows the kills.
C14_Witness ==
    /\ game_state = "Menu"
    /\ clicks = 1
    /\ game_data.score = DANDELION_POINTS * (1 + 2 + 3)
    /\ next_entity = spawn_count("Tiny") + RABBITS_PER_SPAWN + 2 + spawn_count("Tiny") + 2

\* ------------------------------------------------------- fire burn time

\* The burn time the Flamethrower help text of the pause menu promises, in ms.
HELP_TEXT_FIRE_TIME == 2000

\* C15: a fire ignition burns for 2 seconds of game time: no fire has been
\* alive for longer, and none destroys a dandelion after that time.
C15_FireBurnsTwoSeconds ==
    /\ \A f \in DOMAIN fires : fires[f].lifetime.elapsed <= HELP_TEXT_FIRE_TIME
    /\ \A k \in kills :
          (k.by = "fire" /\ k.who \in DOMAIN fires) =>
             fires[k.who].lifetime.elapsed <= HELP_TEXT_FIRE_TIME

\* ---------------------------------------------------------- rabbit expiry

\* C16: a rabbit is despawned no later than one tick after its lifetime timer
\* finishes, target or no target and whatever the order of update_rabbits and
\* cleanup_expired_entities: a rabbit alive at a frame boundary with a
\* finished lifetime has finished it in the frame just ended.
C16_RabbitGoneAfterLifetime ==
    ran = {} =>
       \A r \in DOMAIN rabbits :
          rabbits[r].lifetime.finished => rabbits[r].lifetime.just_finished

\* ----------------------------------------------------------- system order

\* The rabbit run again, this time keeping the order in which the systems of
\* each frame ran.
ScheduleSystems == RabbitSystems

InitSchedule == \E lawn \in RabbitLawns : InitRun(lawn, TRUE)

NextSchedule ==
    \/ NoDebugKey
    \/ press_bunny_key
    \/ update_rabbits
    \/ cleanup_expired_entities
    \/ EndFrame(ScheduleSystems)

SpecSchedule == InitSchedule /\ [][NextSchedule]_vars

\* C17: no system runs twice in a frame, and the systems of a frame run in
\* the order in which they ran in the frame before.
C17_FixedSystemOrder ==
    /\ \A i, j \in 1..Len(schedule.now) :
          i # j => schedule.now[i] # schedule.now[j]
    /\ schedule.last # <<>> =>
          \A i \in 1..Len(schedule.now) : schedule.now[i] = schedule.last[i]

\* ------------------------------------------------- chain reaction ending

\* The app runs the Update schedule frame after frame: the set of systems
\* that have run in the current frame keeps changing.
FrameGoesOn == \E systems \in SUBSET FireSystems : systems # ran /\ ran' = systems

\* The fire run with the frames going on for ever.
SpecFireLive == InitFire /\ [][NextFire]_vars /\ WF_ran(FrameGoesOn)

\* The dandelions destroyed so far: every kill adds 1 to the combo, which
\* nothing resets in this run.
FireKillsSoFar == game_data.combo

\* The fires created so far: the entity ids handed out beyond those of the
\* dandelions of the lawn (the ones still counted and the ones destroyed).
FiresCreatedSoFar == (next_entity - 1) - (game_data.dandelion_count + FireKillsSoFar)

\* C18: with no new dandelions the chain reaction ends (from some frame on
\* there is neither a live fire nor one waiting to be spawned), and the fires
\* ever created number at most the ignitions by the player plus the
\* dandelions destroyed by fire.  The run is never held up for want of entity
\* ids: there is always room for one chain fire per dandelion still standing.
C18_ChainReactionEnds ==
    /\ <>[](DOMAIN fires = {} /\ DOMAIN commands.fires = {})
    /\ [](FiresCreatedSoFar <= presses + FireKillsSoFar)
    /\ [](next_entity + Cardinality((DOMAIN dandelions) \ commands.despawn) - 1 <= MaxEntities)

\* One ignition has burnt down the whole row of six dandelions through five
\* generations of chain fires, and every fire has gone out.
C18_Witness ==
    /\ presses = 1
    /\ game_data.combo = 6
    /\ FiresCreatedSoFar = 6
    /\ DOMAIN fires = {}
    /\ DOMAIN commands.fires = {}
    /\ DOMAIN dandelions = {}

\* ------------------------------------------------- the tiers and the movers

RECURSIVE AfterKills(_, _)
AfterKills(gd, n) == IF n = 0 THEN gd ELSE AfterKills(add_dandelion_kill(gd), n - 1)

\* The kills of a combo that carries the score of level 1 past its threshold.
KillsToThreshold == 6

\* A run of level 1 in which the score has passed the threshold, the variety
\* spawner is on and its timer is one frame short of firing; two Large
\* dandelions stand in merge range of each other, away from where the packs
\* land. Earlier dandelions of the run have used the entity ids below
\* HugeFirstEntity, which leaves room for one pack and one merge.
HugeLawn == <<<<"Large", <<0, -1200>>>>, <<"Large", <<300, -1200>>>>>>

HugeFirstEntity == MaxEntities - Len(VarietySizes)

HugeSystems == {"check_dandelion_merging", "check_moving_dandelion_collisions",
                "update_upgrade_cooldowns", "spawn_variety_dandelions"}

InitHuge ==
    /\ dandelions = [i \in 1..Len(HugeLawn) |->
                       Dandelion(ScaledHealth(NewLevelData, base_health(HugeLawn[i][1])),
                                 HugeLawn[i][1], HugeLawn[i][2])]
    /\ orbs = EmptyMap
    /\ rabbits = EmptyMap
    /\ fires = EmptyMap
    /\ targets = EmptyMap
    /\ total_area = SumArea(dandelions, DOMAIN dandelions)
    /\ game_data = [AfterKills(NewGameData, KillsToThreshold) EXCEPT
                      !.dandelion_count = Len(HugeLawn)]
    /\ spawn_timer = NewTimer(SPAWN_INTERVAL)
    /\ variety_timer = [timer |-> [NewTimer(VARIETY_INTERVAL) EXCEPT
                                     !.elapsed = VARIETY_INTERVAL - FrameDelta],
                        enabled |-> TRUE]
    /\ level_data = NewLevelData
    /\ level_start = <<>>
    /\ commands = NoCommands
    /\ next_entity = HugeFirstEntity
    /\ ran = {}
    /\ kills = {}
    /\ presses = 0
    /\ clicks = 0
    /\ game_state = "Playing"
    /\ inserted = PlayingResources
    /\ schedule = NoSchedule
    /\ FreshSession

NextHuge ==
    \/ check_dandelion_merging
    \/ check_moving_dandelion_collisions
    \/ update_upgrade_cooldowns
    \/ spawn_variety_dandelions
    \/ EndFrame(HugeSystems)

SpecHuge == InitHuge /\ [][NextHuge]_vars

\* Between two frames: no system has run and no command is waiting.
FrameBoundary == ran = {} /\ commands = NoCommands

\* C21: between frames a dandelion carries MovingDandelion exactly when its
\* tier is Huge, whether it became Huge by a merge, by an upgrade under a
\* moving dandelion or in a variety pack.
C21_MovingIffHuge ==
    FrameBoundary =>
        \A d \in DOMAIN dandelions : dandelions[d].moving <=> dandelions[d].size = "Huge"

\* Three Huge dandelions stand between frames: the merged pair of the lawn,
\* the Huge one of a pack and the pack's Large one after its upgrade.
C21_Witness ==
    /\ FrameBoundary
    /\ Cardinality({d \in DOMAIN dandelions : dandelions[d].size = "Huge"}) >= 3
    /\ \E d \in DOMAIN dandelions : dandelions[d].size = "Huge" /\ dandelions[d].cooldown # -1

\* ------------------------------------------- upgrades under several movers

\* Two Huge dandelions that both reach a stationary Small one, wherever they
\* drift on the lawn.
UpgradeLawns == {<<<<"Huge", <<0, 0>>>>, <<"Huge", <<100, 0>>>>, <<"Small", <<300, 0>>>>>>}

InitUpgrade == \E lawn \in UpgradeLawns : InitLawn(lawn)

NextUpgrade ==
    \/ check_dandelion_merging
    \/ update_moving_dandelions
    \/ check_moving_dandelion_collisions
    \/ update_upgrade_cooldowns
    \/ EndFrame(MergeSystems)

SpecUpgrade == InitUpgrade /\ [][NextUpgrade]_vars

\* C22 as stated: the collision pass of a frame raises a dandelion by one tier
\* at most, and only a dandelion that carries no UpgradeCooldown.
C22_OneUpgradePerCooldown ==
    [][CollisionStep =>
         \A d \in DOMAIN dandelions :
            Rank(dandelions'[d].size) # Rank(dandelions[d].size) =>
               /\ dandelions[d].cooldown = -1
               /\ Rank(dandelions'[d].size) = Rank(dandelions[d].size) + 1]_vars

\* --------------------------------------------------- the choice of a target

\* The registry after the sweep at the head of update_rabbits.
SweptTargets == Without(targets, (DOMAIN targets) \ DOMAIN dandelions)

\* The dandelions the registry gives to a rabbit other than this one.
ClaimedByAnother(rabbit) ==
    {d \in DOMAIN dandelions : d \in DOMAIN SweptTargets /\ SweptTargets[d] # rabbit}

\* The dandelions within 200 units of the rabbit.
NearRabbit(rabbit) ==
    {d \in DOMAIN dandelions : DistSq(rabbits[rabbit].pos, dandelions[d].pos)
                                   <= FALLBACK_RADIUS * FALLBACK_RADIUS}

\* What the rabbit would pick if it selected a target now.
Selection(rabbit) == find_best_dandelion_target(rabbit, rabbits[rabbit].pos, SweptTargets)

\* C23: a rabbit that selects a target takes a dandelion no other rabbit has
\* claimed, one of the highest score among them, whenever there is one; when
\* every dandelion is claimed by another rabbit it takes one of those within
\* 200 units, whoever claimed it; it is left without a target only when there
\* is neither.
C23_TargetChoice ==
    \A r \in DOMAIN rabbits :
       LET unclaimed == (DOMAIN dandelions) \ ClaimedByAnother(r)
       IN  /\ unclaimed # {} =>
                /\ Selection(r) # {}
                /\ Selection(r) \subseteq unclaimed
                /\ \A t \in Selection(r) : \A e \in unclaimed :
                      ~ScoresHigher(rabbits[r].pos, e, t)
           /\ (unclaimed = {} /\ NearRabbit(r) # {}) => Selection(r) = NearRabbit(r)
           /\ NoEntity \in Selection(r) <=> (unclaimed = {} /\ NearRabbit(r) = {})

\* A rabbit holds a dandelion that the registry gives to another rabbit:
\* every dandelion was claimed when it selected, and this one was near.
C23_Witness ==
    \E r \in DOMAIN rabbits :
       /\ DOMAIN dandelions # {}
       /\ ClaimedByAnother(r) = DOMAIN dandelions
       /\ rabbits[r].target \in NearRabbit(r)
       /\ rabbits[r].target \in Selection(r)
       /\ "update_rabbits" \in ran

\* ------------------------------------------------------------------ meals

\* Three rabbits that a Bunny powerup has just put around the origin of a lawn
\* of four Tiny dandelions: one more dandelion than there are rabbits.
MealLawn == <<<<"Tiny", <<300, 0>>>>, <<"Tiny", <<-300, 0>>>>,
              <<"Tiny", <<0, 300>>>>, <<"Tiny", <<600, 0>>>>>>

MealSystems == {"update_rabbits", "cleanup_expired_entities"}

\* A lawn on which a Bunny powerup has just put three rabbits around the origin.
InitBunnies(lawn) ==
    /\ dandelions = [i \in 1..Len(lawn) |->
                       Dandelion(ScaledHealth(NewLevelData, base_health(lawn[i][1])),
                                 lawn[i][1], lawn[i][2])]
    /\ orbs = EmptyMap
    /\ rabbits = spawn_rabbits(<<0, 0>>, Len(lawn) + 1)
    /\ fires = EmptyMap
    /\ targets = EmptyMap
    /\ total_area = SumArea(dandelions, DOMAIN dandelions)
    /\ game_data = [NewGameData EXCEPT !.dandelion_count = Len(lawn)]
    /\ spawn_timer = NewTimer(SPAWN_INTERVAL)
    /\ variety_timer = NewVarietySpawnTimer
    /\ level_data = NewLevelData
    /\ level_start = <<>>
    /\ commands = NoCommands
    /\ next_entity = Len(lawn) + RABBITS_PER_SPAWN + 1
    /\ ran = {}
    /\ kills = {}
    /\ presses = 1
    /\ clicks = 0
    /\ game_state = "Playing"
    /\ inserted = PlayingResources
    /\ schedule = NoSchedule
    /\ FreshSession

InitMeal == InitBunnies(MealLawn)

NextMeal ==
    \/ update_rabbits
    \/ cleanup_expired_entities
    \/ EndFrame(MealSystems)

SpecMeal == InitMeal /\ [][NextMeal]_vars

\* Lawns for the rabbits of one Bunny powerup: a dandelion near them, one on
\* either side, and one more than 200 units away.
TargetLawns ==
    {<<<<"Tiny", <<300, 0>>>>>>,
     <<<<"Tiny", <<300, 0>>>>, <<"Small", <<-400, 0>>>>>>,
     <<<<"Tiny", <<3500, 0>>>>>>}

InitTarget == \E lawn \in TargetLawns : InitBunnies(lawn)

NextTarget ==
    \/ update_rabbits
    \/ cleanup_expired_entities
    \/ EndFrame(MealSystems)

SpecTarget == InitTarget /\ [][NextTarget]_vars

\* The step is the rabbit pass of the frame.
RabbitPass == "update_rabbits" \notin ran /\ "update_rabbits" \in ran'

\* The meals of the pass: which rabbit ate which dandelion.
Meals == {k \in kills' \ kills : k.by = "rabbit"}

RECURSIVE MealArea(_)
MealArea(meals) ==
    IF meals = {} THEN 0
    ELSE LET k == CHOOSE x \in meals : TRUE
         IN  visual_area(dandelions[k.dandelion].size) + MealArea(meals \ {k})

\* The rabbits that the pass despawns after their second meal.
Reproducing == {r \in DOMAIN rabbits' : rabbits'[r].dandelions_eaten >= REPRODUCE_AT}

C25_ClaimsHeldByLiveRabbits ==
    FrameBoundary => \A d \in DOMAIN targets : targets[d] \in DOMAIN rabbits

\* ------------------------------------------------------- targets that died

\* C26: a rabbit pass leaves no key in the registry that is not a dandelion
\* of the world, and no rabbit with a target that is not one: a rabbit whose
\* target has been destroyed by anything else has, after the pass, a
\* dandelion that exists as its target or none.  The pass can always be taken
\* while entity ids remain.
C26_NoDeadTarget ==
    /\ []((/\ game_state = "Playing"
           /\ "update_rabbits" \notin ran
           /\ next_entity + RABBITS_PER_SPAWN * Cardinality(DOMAIN rabbits) - 1 <= MaxEntities)
             => ENABLED update_rabbits)
    /\ [][RabbitPass =>
            /\ DOMAIN targets' \subseteq DOMAIN dandelions
            /\ \A r \in DOMAIN rabbits' :
                  rabbits'[r].target \in {NoEntity} \cup DOMAIN dandelions]_vars

\* After its pass a rabbit that has eaten nothing has left the place where
\* it was spawned and has no target, on a lawn where the fire has burnt every
\* dandelion: the target it walked towards was destroyed by the fire.
C26_Witness ==
    /\ "update_rabbits" \in ran
    /\ DOMAIN dandelions = {}
    /\ game_data.combo >= 3
    /\ \A r \in DOMAIN rabbits : rabbits[r].dandelions_eaten = 0
    /\ \E r \in DOMAIN rabbits :
          /\ rabbits[r].target = NoEntity
          /\ \A i \in 1..RABBITS_PER_SPAWN :
                rabbits[r].pos # <<RabbitFan[i][1], RabbitFan[i][2]>>

\* ------------------------------------------------- fires of the same tick

\* The step is the fire pass of the frame.
FirePass == "update_fire_system" \notin ran /\ "update_fire_system" \in ran'

\* The dandelions the fire pass of this step destroys.
Burnt == {k.dandelion : k \in {x \in kills' \ kills : x.by = "fire"}}

\* The chain fires the fire pass of this step queues.
Ignited == (DOMAIN commands'.fires) \ DOMAIN commands.fires

\* C27: the fire pass of a frame destroys exactly the dandelions within reach
\* of a fire that was alive when the frame began; the chain fires it queues
\* stand where a destroyed dandelion stood and join the live fires only when
\* the frame ends, so they burn nothing before the next frame.
C27_ChainWaitsForNextTick ==
    [][/\ FirePass =>
            /\ Burnt = {d \in DOMAIN dandelions :
                          \E f \in DOMAIN fires :
                             Within(fires[f].pos, dandelions[d].pos, FIRE_RADIUS)}
            /\ \A c \in Ignited :
                  /\ commands'.fires[c].origin \in Burnt
                  /\ commands'.fires[c].pos = dandelions[commands'.fires[c].origin].pos
       /\ ran' # {} => DOMAIN fires' = DOMAIN fires]_vars

\* A fire pass has queued a chain fire, and a dandelion within reach of that
\* chain fire but of no live fire is left standing by the pass.
C27_Witness ==
    /\ "update_fire_system" \in ran
    /\ \E c \in DOMAIN commands.fires :
          /\ commands.fires[c].origin # NoEntity
          /\ \E d \in (DOMAIN dandelions) \ commands.despawn :
                /\ Within(commands.fires[c].pos, dandelions[d].pos, FIRE_RADIUS)
                /\ \A f \in DOMAIN fires :
                      ~Within(fires[f].pos, dandelions[d].pos, FIRE_RADIUS)

\* --------------------------------------------- a dandelion in several fires

\* A single dandelion within reach of a fire that the Flamethrower has just
\* lit at the origin; the spawn timer keeps planting dandelions, so that a new
\* one may stand inside the first fire and inside the chain fire of the first
\* kill at once. Earlier entities of the run have used the ids below
\* BurnFirstEntity, which leaves room for two spawns and two chain fires.
BurnLawn == <<<<"Tiny", <<900, 0>>>>>>

BurnFirstEntity == MaxEntities - 3

BurnSystems == {"update_fire_system", "cleanup_expired_entities", "spawn_dandelions"}

InitBurn ==
    /\ dandelions = [i \in 1..Len(BurnLawn) |->
                       Dandelion(ScaledHealth(NewLevelData, base_health(BurnLawn[i][1])),
                                 BurnLawn[i][1], BurnLawn[i][2])]
    /\ orbs = EmptyMap
    /\ rabbits = EmptyMap
    /\ fires = [i \in {Len(BurnLawn) + 1} |->
                  spawn_fire_ignition_with_generation(<<0, 0>>, 0, -1, NoEntity)]
    /\ targets = EmptyMap
    /\ total_area = SumArea(dandelions, DOMAIN dandelions)
    /\ game_data = [NewGameData EXCEPT !.dandelion_count = Len(BurnLawn)]
    /\ spawn_timer = NewTimer(SPAWN_INTERVAL)
    /\ variety_timer = NewVarietySpawnTimer
    /\ level_data = NewLevelData
    /\ level_start = <<>>
    /\ commands = NoCommands
    /\ next_entity = BurnFirstEntity
    /\ ran = {}
    /\ kills = {}
    /\ presses = 1
    /\ clicks = 0
    /\ game_state = "Playing"
    /\ inserted = PlayingResources
    /\ schedule = NoSchedule
    /\ FreshSession

NextBurn ==
    \/ update_fire_system
    \/ cleanup_expired_entities
    \/ spawn_dandelions
    \/ EndFrame(BurnSystems)

SpecBurn == InitBurn /\ [][NextBurn]_vars

\* The fires alive in this frame that reach the dandelion.
FiresOver(d) ==
    {f \in DOMAIN fires : Within(fires[f].pos, dandelions[d].pos, FIRE_RADIUS)}

\* The kills that the fire pass of this step records.
FireKills == {k \in kills' \ kills : k.by = "fire"}

\* C28: the fire pass of a frame marks a dandelion that stands in one fire
\* or in several exactly once: it records one kill for it, takes its area
\* off total_area once and one off dandelion_count, and queues at most one
\* chain fire where it stood, of the generation after that of one of the
\* fires that reach it, the one the kill is recorded for; none when that
\* fire is of the last generation.
C28_MarkedOnce ==
    [][FirePass =>
         /\ \A d \in Burnt :
               /\ Cardinality({k \in FireKills : k.dandelion = d}) = 1
               /\ \A k \in FireKills : k.dandelion = d =>
                     /\ k.who \in FiresOver(d)
                     /\ LET chain == {c \in Ignited : commands'.fires[c].origin = d}
                        IN  /\ Cardinality(chain) <= 1
                            /\ chain = {} <=> fires[k.who].generation >= MAX_GENERATION
                            /\ \A c \in chain :
                                  commands'.fires[c].generation = fires[k.who].generation + 1
         /\ Cardinality(Ignited) <= Cardinality(Burnt)
         /\ total_area' = total_area - SumArea(dandelions, Burnt)
         /\ game_data'.combo = game_data.combo + Cardinality(Burnt)
         /\ game_data'.dandelion_count = SaturatingSub(game_data.dandelion_count,
                                                       Cardinality(Burnt))]_vars

\* A dandelion stood in two fires of different generations and the pass
\* has queued one chain fire for it, of the generation after the older one.
C28_Witness ==
    /\ "update_fire_system" \in ran
    /\ \E k \in kills :
          /\ k.by = "fire"
          /\ \E f \in FiresOver(k.dandelion) : fires[f].generation > fires[k.who].generation
          /\ Cardinality({c \in DOMAIN commands.fires :
                            commands.fires[c].origin = k.dandelion}) = 1

\* ------------------------------------------------------- the variety packs

VarietySystems == {"spawn_variety_dandelions", "handle_level_start_events"}

\* A bare lawn in level 1, one kill short of the score that switches the
\* variety spawner on.
InitVariety ==
    /\ dandelions = [i \in {} |-> Dandelion(1, "Tiny", <<0, 0>>)]
    /\ orbs = EmptyMap
    /\ rabbits = EmptyMap
    /\ fires = EmptyMap
    /\ targets = EmptyMap
    /\ total_area = 0
    /\ game_data = AfterKills(NewGameData, KillsToThreshold - 1)
    /\ spawn_timer = NewTimer(SPAWN_INTERVAL)
    /\ variety_timer = NewVarietySpawnTimer
    /\ level_data = NewLevelData
    /\ level_start = <<>>
    /\ commands = NoCommands
    /\ next_entity = 1
    /\ ran = {}
    /\ kills = {}
    /\ presses = 0
    /\ clicks = 0
    /\ game_state = "Playing"
    /\ inserted = PlayingResources
    /\ schedule = NoSchedule
    /\ FreshSession

NextVariety ==
    \/ record_kill
    \/ write_level_start
    \/ handle_level_start_events
    \/ spawn_variety_dandelions
    \/ EndFrame(VarietySystems)

SpecVariety == InitVariety /\ [][NextVariety]_vars

\* The step is the run of the variety spawner in the frame.
VarietyPass ==
    /\ "spawn_variety_dandelions" \notin ran
    /\ "spawn_variety_dandelions" \in ran'

\* The dandelions the spawner queues in this step.
PackSpawned == (DOMAIN commands'.dandelions) \ DOMAIN commands.dandelions

\* C29 as stated: the variety spawner creates nothing in a frame in which the
\* score is below the difficulty_threshold of the current level.
C29_NothingBelowThreshold ==
    [][(VarietyPass /\ game_data.score < VarietyThreshold(level_data))
          => PackSpawned = {}]_vars

\* ------------------------------------------------- the health of newcomers

\* The progress of a player who has reached the level with three stars in
\* every level before it.
PlayerAtLevel(level) ==
    [current_level |-> level,
     completed |-> [l \in LevelIds |-> l < level],
     best_score |-> [l \in LevelIds |-> IF l < level THEN target_points(l) ELSE 0],
     best_time |-> [l \in LevelIds |-> IF l < level THEN three_star(l) ELSE DEFAULT_BEST_TIME],
     best_stars |-> [l \in LevelIds |-> IF l < level THEN 3 ELSE 0]]

\* Two Small dandelions in merge range of each other, away from where the
\* packs and the spawns land.
HealthLawn == <<<<"Small", <<0, -1200>>>>, <<"Small", <<200, -1200>>>>>>

\* Room for a variety pack, a merge, a seed orb's dandelion and a spawn.
HealthFirstEntity == MaxEntities - Len(VarietySizes) - 2

HealthSystems == {"spawn_dandelions", "update_seed_orbs", "check_dandelion_merging",
                  "spawn_variety_dandelions"}

\* A run of any level of the table: the lawn, a seed orb in flight, the
\* variety spawner switched on; the orb, the spawn timer and the variety
\* timer are each one frame short of firing.
InitHealth ==
    \E level \in LevelIds :
       /\ level_data = PlayerAtLevel(level)
       /\ dandelions = [i \in 1..Len(HealthLawn) |->
                          Dandelion(ScaledHealth(level_data, base_health(HealthLawn[i][1])),
                                    HealthLawn[i][1], HealthLawn[i][2])]
       /\ orbs = [i \in {Len(HealthLawn) + 1} |->
                    [SeedOrb(<<0, 0>>, <<600, 0>>) EXCEPT
                       !.spawn_timer.elapsed = SEED_ORB_TIME - FrameDelta]]
       /\ rabbits = EmptyMap
       /\ fires = EmptyMap
       /\ targets = EmptyMap
       /\ total_area = SumArea(dandelions, DOMAIN dandelions)
       /\ game_data = [AfterKills(NewGameData, 1) EXCEPT !.dandelion_count = Len(HealthLawn)]
       /\ spawn_timer = [NewTimer(SPAWN_INTERVAL) EXCEPT
                           !.elapsed = SPAWN_INTERVAL - FrameDelta]
       /\ variety_timer = [timer |-> [NewTimer(VARIETY_INTERVAL) EXCEPT
                                        !.elapsed = VARIETY_INTERVAL - FrameDelta],
                           enabled |-> TRUE]
       /\ level_start = <<>>
       /\ commands = NoCommands
       /\ next_entity = HealthFirstEntity
       /\ ran = {}
       /\ kills = {}
       /\ presses = 0
       /\ clicks = 1
       /\ game_state = "Playing"
       /\ inserted = PlayingResources
       /\ schedule = NoSchedule
       /\ FreshSession

NextHealth ==
    \/ spawn_dandelions
    \/ update_seed_orbs
    \/ check_dandelion_merging
    \/ spawn_variety_dandelions
    \/ EndFrame(HealthSystems)

SpecHealth == InitHealth /\ [][NextHealth]_vars

\* The dandelions that the step queues for spawning.
Newcomers == (DOMAIN commands'.dandelions) \ DOMAIN commands.dandelions

\* h is the least whole number that is at least base times the multiplier.
IsCeilOfScaled(h, base, level) ==
    /\ 10 * (h - 1) < base * health_multiplier_x10(level)
    /\ base * health_multiplier_x10(level) <= 10 * h

\* C30: a dandelion created by the spawn timer, a seed orb, a merge or the
\* variety spawner starts with the health ceil(base_health(tier) x
\* health_multiplier) of the level being played, which in every level of the
\* table is at least base_health(tier) and at least 1.
C30_ScaledHealth ==
    [][\A d \in Newcomers :
          LET new == commands'.dandelions[d]
          IN  /\ base_health(new.size) \in 1..5
              /\ IsCeilOfScaled(new.health, base_health(new.size), level_data.current_level)
              /\ new.health >= base_health(new.size)
              /\ new.health >= 1]_vars

\* In a level whose multiplier is not whole, the frame has queued a merged
\* Medium dandelion, the Tiny one of a seed orb, a spawned one and a pack,
\* the Huge one of the pack with more health than its base.
C30_Witness ==
    /\ health_multiplier_x10(level_data.current_level) % 10 # 0
    /\ ran = HealthSystems
    /\ Cardinality(DOMAIN commands.dandelions) = Len(VarietySizes) + 3
    /\ \E d \in DOMAIN commands.dandelions :
          commands.dandelions[d].size = "Medium" /\ commands.dandelions[d].pos[2] = -1200
    /\ \E d \in DOMAIN commands.dandelions :
          /\ commands.dandelions[d].size = "Huge"
          /\ commands.dandelions[d].health > base_health("Huge")

\* ----------------------------------------------- what a seed orb turns into

\* The step is the frame's run of update_seed_orbs.
OrbPass == "update_seed_orbs" \in ran' \ ran

\* The orbs whose 0.4 s have passed once this frame's delta is added.
TimerCompletes == {o \in DOMAIN orbs : orbs[o].spawn_timer.elapsed + FrameDelta >= SEED_ORB_TIME}

\* C31: in the frame in which its 0.4-second timer completes a seed orb is
\* queued for removal and exactly one Tiny dandelion is queued at its target
\* position, with visual_area(Tiny) added to the tracker and 1 to
\* dandelion_count for each such orb; an orb whose timer has not completed
\* yields nothing and stays; and no orb with a completed timer is left at a
\* frame boundary to yield a second dandelion.
C31_OneTinyPerOrb ==
    /\ [][OrbPass =>
            LET done == TimerCompletes
            IN  /\ done \subseteq commands'.despawn
                /\ (DOMAIN orbs \ done) \cap commands'.despawn
                      = (DOMAIN orbs \ done) \cap commands.despawn
                /\ \E child \in [done -> Newcomers] :
                      /\ \A a, b \in done : child[a] = child[b] => a = b
                      /\ {child[o] : o \in done} = Newcomers
                      /\ \A o \in done :
                            /\ commands'.dandelions[child[o]].size = "Tiny"
                            /\ commands'.dandelions[child[o]].pos = orbs[o].target_position
                /\ total_area' = total_area + Cardinality(done) * visual_area("Tiny")
                /\ game_data'.dandelion_count
                      = game_data.dandelion_count + Cardinality(done)]_vars
    /\ [](ran = {} => \A o \in DOMAIN orbs : ~orbs[o].spawn_timer.finished)

\* The orbs of one kill have turned into queued Tiny dandelions while a
\* younger orb, its timer still running, flies on.
C31_Witness ==
    /\ "update_seed_orbs" \in ran
    /\ \E o \in DOMAIN orbs :
          /\ orbs[o].spawn_timer.finished
          /\ o \in commands.despawn
          /\ \E d \in DOMAIN commands.dandelions :
                /\ commands.dandelions[d].size = "Tiny"
                /\ commands.dandelions[d].pos = orbs[o].target_position
    /\ \E o \in DOMAIN orbs :
          /\ ~orbs[o].spawn_timer.finished
          /\ o \notin commands.despawn

\* ------------------------------------------------- the count and the lawn

\* C37: at every frame boundary GameData.dandelion_count is the number of
\* live dandelions.
C37_CountMatchesLawn ==
    FrameBoundary => game_data.dandelion_count = Cardinality(DOMAIN dandelions)

\* --------------------------------------------- one destruction per dandelion

\* C38: no dandelion is destroyed twice: within a frame, before its despawn
\* takes effect, at most one kill is registered for it, whichever
\* subsystems act on it.
C38_OneKillPerDandelion ==
    \A a, b \in kills :
       (a.dandelion = b.dandelion /\ a.by # "merge" /\ b.by # "merge") => a = b

\* ------------------------------------------------ the registry as a matching

\* C40: at every frame boundary the registry maps different dandelions to
\* different rabbits, and each entry d -> r names a rabbit whose target is d.
C40_RegistryMatchesTargets ==
    FrameBoundary =>
       /\ \A d1, d2 \in DOMAIN targets : targets[d1] = targets[d2] => d1 = d2
       /\ \A d \in DOMAIN targets :
             /\ targets[d] \in DOMAIN rabbits
             /\ rabbits[targets[d]].target = d

\* ------------------------------------------- kills that are not the player's

\* A Medium dandelion beside a burning fire, a Large one under a rabbit's
\* nose, two Small ones in merge range of each other and a Tiny one touching
\* a moving Huge one: the groups are out of each other's reach.
HarvestLawn ==
    <<<<"Medium", <<300, 0>>>>, <<"Large", <<-2000, 0>>>>,
      <<"Small", <<0, -2000>>>>, <<"Small", <<200, -2000>>>>,
      <<"Huge", <<1800, 1500>>>>, <<"Tiny", <<1900, 1500>>>>>>

\* Room for one chain fire and one merged dandelion.
HarvestFirstEntity == MaxEntities - 1

HarvestSystems == {"update_rabbits", "update_fire_system", "cleanup_expired_entities",
                   "check_dandelion_merging", "check_moving_dandelion_collisions",
                   "update_upgrade_cooldowns"}

\* The lawn with a rabbit late in its life beside the Large dandelion and a
\* powerup's fire beside the Medium one.
InitHarvest ==
    /\ dandelions = [i \in 1..Len(HarvestLawn) |->
                       Dandelion(ScaledHealth(NewLevelData, base_health(HarvestLawn[i][1])),
                                 HarvestLawn[i][1], HarvestLawn[i][2])]
    /\ orbs = EmptyMap
    /\ rabbits = [i \in {Len(HarvestLawn) + 1} |->
                    [Rabbit(<<-2000, 100>>) EXCEPT
                       !.lifetime.elapsed = RABBIT_LIFETIME - 3 * FrameDelta]]
    /\ fires = [i \in {Len(HarvestLawn) + 2} |->
                  spawn_fire_ignition_with_generation(<<0, 0>>, 0, -1, NoEntity)]
    /\ targets = EmptyMap
    /\ total_area = SumArea(dandelions, DOMAIN dandelions)
    /\ game_data = [AfterKills(NewGameData, 1) EXCEPT !.dandelion_count = Len(HarvestLawn)]
    /\ spawn_timer = NewTimer(SPAWN_INTERVAL)
    /\ variety_timer = NewVarietySpawnTimer
    /\ level_data = NewLevelData
    /\ level_start = <<>>
    /\ commands = NoCommands
    /\ next_entity = HarvestFirstEntity
    /\ ran = {}
    /\ kills = {}
    /\ presses = 1
    /\ clicks = 1
    /\ game_state = "Playing"
    /\ inserted = PlayingResources
    /\ schedule = NoSchedule
    /\ FreshSession

NextHarvest ==
    \/ update_rabbits
    \/ update_fire_system
    \/ cleanup_expired_entities
    \/ check_dandelion_merging
    \/ check_moving_dandelion_collisions
    \/ update_upgrade_cooldowns
    \/ EndFrame(HarvestSystems)

SpecHarvest == InitHarvest /\ [][NextHarvest]_vars

\* The dandelions a rabbit holds as target and has within eating distance.
InRabbitReach ==
    {d \in DOMAIN dandelions :
       \E r \in DOMAIN rabbits :
          /\ rabbits[r].target = d
          /\ Within(rabbits[r].pos, dandelions[d].pos, RABBIT_EAT_DISTANCE)}

\* C39: a rabbit's meal and a fire's hit destroy the dandelion whatever its
\* health and queue no seed orb; a merge pass and a collision pass leave
\* score and combo as they were.
C39_KillsWithoutOrbs ==
    [][/\ RabbitPass =>
            /\ InRabbitReach \subseteq commands'.despawn
            /\ \A k \in Meals : k.dandelion \in commands'.despawn
            /\ commands'.orbs = commands.orbs
       /\ FirePass =>
            /\ \A d \in DOMAIN dandelions : FiresOver(d) # {} => d \in commands'.despawn
            /\ commands'.orbs = commands.orbs
       /\ (MergeStep \/ CollisionStep) =>
            /\ game_data'.score = game_data.score
            /\ game_data'.combo = game_data.combo]_vars

\* In one frame the rabbit has eaten the Large dandelion and the fire has
\* burnt the Medium one, both at full health, the Small pair has merged and
\* the Tiny dandelion has been upgraded; no seed orb is queued.
C39_Witness ==
    /\ ran = HarvestSystems
    /\ \E k \in kills :
          k.by = "rabbit" /\ dandelions[k.dandelion].health > 1
                          /\ k.dandelion \in commands.despawn
    /\ \E k \in kills :
          k.by = "fire" /\ dandelions[k.dandelion].health > 1
                        /\ k.dandelion \in commands.despawn
    /\ \E k \in kills : k.by = "merge"
    /\ commands.insert_cooldown # {}
    /\ commands.orbs = EmptyMap
    /\ orbs = EmptyMap

\* ------------------------------------------- level completion and pausing

\* The times since the start of the session at which the target may be
\* reached, in ms: within every star limit of the first levels and beyond.
CompletionTimes == {50000, 100000, 200000}

\* The kills of one unbroken combo that leave the score of level 1 one kill
\* short of its target.
KillsBeforeTarget ==
    CHOOSE n \in 0..MaxCombo :
       /\ AfterKills(NewGameData, n).score < target_points(1)
       /\ AfterKills(NewGameData, n + 1).score >= target_points(1)

\* check_level_completion: it carries run_if(in_state(GameState::Playing))
\* only, and so runs while the game is paused too.
check_level_completion ==
    /\ "check_level_completion" \notin ran
    /\ IF /\ level_data.current_level \in LevelIds
          /\ ~level_session.target_reached
          /\ game_data.score >= target_points(level_data.current_level)
       THEN /\ level_session' = [level_session EXCEPT !.target_reached = TRUE]
            /\ IF level_session.started
               THEN \E completion_time \in CompletionTimes :
                      LET event == [level_id |-> level_data.current_level,
                                    completion_time |-> completion_time,
                                    final_score |-> game_data.score,
                                    stars_earned |-> calculate_stars(level_data.current_level,
                                                                     completion_time)]
                      IN  level_events' = [level_events EXCEPT
                                             !.complete = Append(@, event),
                                             !.shown = Append(@, event)]
               ELSE UNCHANGED level_events
       ELSE UNCHANGED <<level_session, level_events>>
    /\ RunSystem("check_level_completion")
    /\ UNCHANGED <<world, resources, commands, next_entity, kills, inputs, next_state, overlay>>

\* The progress after complete_level for each event in turn.
RECURSIVE CompleteAll(_, _)
CompleteAll(ld, events) ==
    IF events = <<>> THEN ld
    ELSE CompleteAll(complete_level(ld, Head(events).level_id, Head(events).completion_time,
                                    Head(events).final_score),
                     Tail(events))

\* handle_level_events: complete_level for every LevelCompleteEvent, then
\* level_session.start for every LevelStartEvent. It runs while paused too.
handle_level_events ==
    /\ "handle_level_events" \notin ran
    /\ level_data' = CompleteAll(level_data, level_events.complete)
    /\ level_session' = IF level_events.start = <<>> THEN level_session ELSE NewLevelSession
    /\ level_events' = [level_events EXCEPT !.complete = <<>>, !.start = <<>>]
    /\ RunSystem("handle_level_events")
    /\ UNCHANGED <<world, targets, total_area, game_data, spawn_timer, variety_timer, level_start,
                   commands, next_entity, kills, inputs, next_state, overlay>>

\* handle_level_completion_events: shows the overlay for a LevelCompleteEvent
handle_level_completion_events ==
    /\ "handle_level_completion_events" \notin ran
    /\ pause_state = "Playing"
    /\ overlay' = IF level_events.shown = <<>> THEN overlay ELSE [overlay EXCEPT !.visible = TRUE]
    /\ level_events' = [level_events EXCEPT !.shown = <<>>]
    /\ RunSystem("handle_level_completion_events")
    /\ UNCHANGED <<world, resources, commands, next_entity, kills, inputs, next_state,
                   level_session>>

\* handle_level_completion_interactions without a press of Continue
NoContinue ==
    /\ "handle_level_completion_interactions" \notin ran
    /\ RunSystem("handle_level_completion_interactions")
    /\ UNCHANGED <<world, resources, commands, next_entity, kills, inputs, next_state,
                   level_session, level_events, overlay>>

\* handle_level_completion_interactions with Continue pressed: the press was
\* taken before the frame's systems, on a button that was visible then. The
\* system carries run_if(in_state(GameState::Playing)) only.
handle_level_completion_interactions ==
    /\ "handle_level_completion_interactions" \notin ran
    /\ overlay.interactive
    /\ clicks < MaxClicks
    /\ overlay' = [overlay EXCEPT !.visible = FALSE]
    /\ commands' = [commands EXCEPT !.despawn = @ \cup EnemyEntities \cup PowerupEntities]
    /\ game_data' = LevelReset(game_data)
    /\ LET next_level_id == level_data.current_level + 1
       IN  IF next_level_id \in LevelIds
           THEN /\ level_data' = set_current_level(level_data, next_level_id)
                /\ level_start' = Append(level_start, next_level_id)
                /\ level_events' = [level_events EXCEPT !.start = Append(@, next_level_id)]
                /\ UNCHANGED next_state
           ELSE /\ next_state' = [next_state EXCEPT !.game = "Menu"]
                /\ UNCHANGED <<level_data, level_start, level_events>>
    /\ clicks' = clicks + 1
    /\ RunSystem("handle_level_completion_interactions")
    /\ UNCHANGED <<world, targets, total_area, spawn_timer, variety_timer, next_entity, kills,
                   presses, level_session>>

\* handle_game_input with KeyQ, or handle_button_interactions with the pause
\* button, while playing. Nothing reads the pending PauseState before the
\* frame ends, so the press is taken at the end of the frame it falls in.
press_pause_key ==
    /\ game_state = "Playing"
    /\ pause_state = "Playing"
    /\ ran = {}
    /\ next_state = NoTransition
    /\ presses < MaxPresses
    /\ next_state' = [next_state EXCEPT !.pause = "Paused"]
    /\ presses' = presses + 1
    /\ UNCHANGED <<world, resources, commands, next_entity, ran, kills, clicks, app,
                   pause_state, level_session, level_events, overlay>>

\* The pause menu's systems with nothing pressed
NoMenuInput ==
    /\ "pause_menu" \notin ran
    /\ pause_state # "Playing"
    /\ RunSystem("pause_menu")
    /\ UNCHANGED <<world, resources, commands, next_entity, kills, inputs, next_state,
                   level_session, level_events, overlay>>

\* handle_pause_input (KeyQ) or the Resume button of pause_menu_interactions
resume_game ==
    /\ "pause_menu" \notin ran
    /\ pause_state = "Paused"
    /\ next_state' = [next_state EXCEPT !.pause = "Playing"]
    /\ RunSystem("pause_menu")
    /\ UNCHANGED <<world, resources, commands, next_entity, kills, inputs,
                   level_session, level_events, overlay>>

\* pause_menu_interactions with the Level Selection button pressed
open_level_selection ==
    /\ "pause_menu" \notin ran
    /\ pause_state = "Paused"
    /\ clicks < MaxClicks
    /\ next_state' = [next_state EXCEPT !.pause = "LevelSelection"]
    /\ clicks' = clicks + 1
    /\ RunSystem("pause_menu")
    /\ UNCHANGED <<world, resources, commands, next_entity, kills, presses,
                   level_session, level_events, overlay>>

\* handle_level_selection_input (KeyQ) or the Back button of
\* level_selection_interactions
leave_level_selection ==
    /\ "pause_menu" \notin ran
    /\ pause_state = "LevelSelection"
    /\ next_state' = [next_state EXCEPT !.pause = "Paused"]
    /\ RunSystem("pause_menu")
    /\ UNCHANGED <<world, resources, commands, next_entity, kills, inputs,
                   level_session, level_events, overlay>>

\* level_selection_interactions: a level button of the level selection is
\* pressed
level_selection_interactions ==
    /\ "pause_menu" \notin ran
    /\ pause_state = "LevelSelection"
    /\ clicks < MaxClicks
    /\ \E level_id \in LevelIds :
         /\ is_level_unlocked(level_data, level_id)
         /\ level_start' = Append(level_start, level_id)
         /\ level_events' = [level_events EXCEPT !.start = Append(@, level_id)]
    /\ next_state' = [pause |-> "Playing", game |-> "Playing"]
    /\ clicks' = clicks + 1
    /\ RunSystem("pause_menu")
    /\ UNCHANGED <<world, targets, total_area, game_data, spawn_timer, variety_timer, level_data,
                   commands, next_entity, kills, presses, level_session, overlay>>

\* The StateTransition schedule, before the systems of the next frame: the
\* pending PauseState is entered; a pending GameState::Menu runs the OnExit
\* systems of Playing (cleanup_game resets the pause state); a transition
\* from Playing to Playing enters and exits nothing.
StateTransition ==
    /\ ran = {}
    /\ next_state # NoTransition
    /\ IF next_state.game = "Menu"
       THEN /\ LET despawned == EnemyEntities \cup PowerupEntities
               IN  /\ dandelions' = Without(dandelions, despawned)
                   /\ orbs' = Without(orbs, despawned)
                   /\ rabbits' = Without(rabbits, despawned)
                   /\ fires' = Without(fires, despawned)
            /\ targets' = EmptyMap
            /\ inserted' = ((inserted \ EnemyResources) \ PowerupResources) \ GameResources
            /\ game_state' = "Menu"
            /\ pause_state' = "Playing"
            /\ overlay' = NoOverlay
       ELSE /\ pause_state' = IF next_state.pause = "None" THEN pause_state ELSE next_state.pause
            /\ UNCHANGED <<world, targets, inserted, game_state, overlay>>
    /\ next_state' = NoTransition
    /\ UNCHANGED <<total_area, game_data, spawn_timer, variety_timer, level_data, level_start,
                   commands, next_entity, ran, kills, inputs, schedule, level_session,
                   level_events>>

\* Events are dropped by the second update of their buffers after they were
\* written, and the updates follow the fixed time step: what was written for
\* a system that does not run while paused may be lost to it once a paused
\* frame begins.
drop_unread_events ==
    /\ game_state = "Playing"
    /\ pause_state # "Playing"
    /\ ran = {}
    /\ next_state = NoTransition
    /\ level_start # <<>> \/ level_events.shown # <<>>
    /\ level_start' = <<>>
    /\ level_events' = [level_events EXCEPT !.shown = <<>>]
    /\ UNCHANGED <<world, targets, total_area, game_data, spawn_timer, variety_timer, level_data,
                   commands, next_entity, ran, kills, inputs, app,
                   pause_state, next_state, level_session, overlay>>

\* The longest combo of a session: enough to reach the target of level 1
\* from a score of 0.
MaxSessionCombo == 10

\* A kill is registered by one of the systems that run while playing, as
\* long as the target of the level is not reached. The level systems see it
\* from the next frame on, as when the killing system is the last to run.
kill_while_playing ==
    /\ game_state = "Playing"
    /\ pause_state = "Playing"
    /\ ran = {}
    /\ next_state = NoTransition
    /\ game_data.combo < MaxSessionCombo
    /\ level_data.current_level \in LevelIds
    /\ game_data.score < target_points(level_data.current_level)
    /\ record_kill

PlayingLevelSystems ==
    {"check_level_completion", "handle_level_events", "handle_level_completion_events",
     "handle_level_start_events", "handle_level_completion_interactions"}

PausedLevelSystems ==
    {"pause_menu", "check_level_completion", "handle_level_events",
     "handle_level_completion_interactions"}

\* The end of a frame, playing or paused.
EndLevelFrame ==
    IF pause_state # "Playing" THEN EndFrame(PausedLevelSystems)
    ELSE EndFrame(PlayingLevelSystems)

\* Level 1 on a bare lawn, the score one kill short of the target: after an
\* unbroken combo, or with four single kills before it.
InitLevels ==
    /\ dandelions = EmptyMap
    /\ orbs = EmptyMap
    /\ rabbits = EmptyMap
    /\ fires = EmptyMap
    /\ targets = EmptyMap
    /\ total_area = 0
    /\ \E singles \in {0, 4} :
         game_data = [AfterKills(NewGameData, KillsBeforeTarget) EXCEPT
                        !.score = @ + singles * DANDELION_POINTS]
    /\ spawn_timer = NewTimer(SPAWN_INTERVAL)
    /\ variety_timer = NewVarietySpawnTimer
    /\ level_data = NewLevelData
    /\ level_start = <<>>
    /\ commands = NoCommands
    /\ next_entity = 1
    /\ ran = {}
    /\ kills = {}
    /\ presses = 0
    /\ clicks = 0
    /\ game_state = "Playing"
    /\ inserted = PlayingResources
    /\ schedule = NoSchedule
    /\ FreshSession

NextLevels ==
    \/ kill_while_playing
    \/ press_pause_key
    \/ check_level_completion
    \/ handle_level_events
    \/ handle_level_completion_events
    \/ handle_level_start_events
    \/ NoContinue
    \/ handle_level_completion_interactions
    \/ NoMenuInput
    \/ resume_game
    \/ open_level_selection
    \/ leave_level_selection
    \/ level_selection_interactions
    \/ StateTransition
    \/ drop_unread_events
    \/ EndLevelFrame

SpecLevels == InitLevels /\ [][NextLevels]_vars

\* ------------------------------------------------ the level that is played

\* The stars that count towards unlocking the level: one for each star of
\* each earlier level.
StarsBefore(ld, level) ==
    Cardinality({pair \in (1..(level - 1)) \X (1..3) : pair[2] <= ld.best_stars[pair[1]]})

\* The level exists and its star requirement is met by the levels before it.
ExistsUnlocked(ld, level) ==
    /\ level \in LevelIds
    /\ level = 1 \/ StarsBefore(ld, level) >= required_stars(level)

\* The levels asked for by the LevelStartEvents the step reads or writes.
LevelsAskedFor ==
    {level_start[i] : i \in DOMAIN level_start} \cup {level_start'[i] : i \in DOMAIN level_start'}

EventsRead ==
    IF "handle_level_events" \in ran' \ ran
    THEN {level_events.complete[i] : i \in DOMAIN level_events.complete}
    ELSE {}

\* The star rating of a completion time, by the limits of the level
StarsFor(level, completion_time) ==
    Cardinality({limit \in {three_star(level), two_star(level), one_star(level)} :
                   completion_time <= limit})

\* C35: best_stars of a level never decreases, and after the completions
\* that a step records it is the highest of its value before the step and
\* the ratings earned in those completions (3 stars for a time within the
\* three_star limit, 2 within two_star, 1 within one_star, else 0).
C35_BestStarsIsHighest ==
    [][\A level \in LevelIds :
         LET earned == {StarsFor(level, event.completion_time) :
                          event \in {e \in EventsRead : e.level_id = level}}
         IN  /\ level_data'.best_stars[level] >= level_data.best_stars[level]
             /\ \A stars \in earned : level_data'.best_stars[level] >= stars
             /\ level_data'.best_stars[level] \in earned \cup {level_data.best_stars[level]}]_vars

\* ------------------------------------------------------- the Continue button

\* The step is the frame's run of handle_level_completion_interactions with
\* Continue pressed.
ContinuePressed ==
    /\ "handle_level_completion_interactions" \in ran' \ ran
    /\ clicks' = clicks + 1

\* C34: a press of Continue queues the removal of every dandelion, seed orb,
\* rabbit and fire and sets score, combo and dandelion_count to 0; if the
\* level after the current one exists it becomes the current level and a
\* LevelStartEvent for it is written, and if not the game goes to the Menu.
C34_ContinueAdvances ==
    [][ContinuePressed =>
         /\ EnemyEntities \cup PowerupEntities \subseteq commands'.despawn
         /\ game_data'.score = 0
         /\ game_data'.combo = 0
         /\ game_data'.dandelion_count = 0
         /\ IF level_data.current_level + 1 \in LevelIds
            THEN /\ level_data'.current_level = level_data.current_level + 1
                 /\ level_start' = Append(level_start, level_data.current_level + 1)
                 /\ next_state'.game = next_state.game
            ELSE /\ next_state'.game = "Menu"
                 /\ level_data'.current_level = level_data.current_level]_vars

\* ------------------------------------------------- one completion a session

\* The step writes a LevelCompleteEvent.
Emitted == Len(level_events'.complete) > Len(level_events.complete)

\* The event that the step writes
NewEvent == level_events'.complete[Len(level_events'.complete)]

\* C32: a LevelCompleteEvent is written when the score is seen at or above
\* the target of the current level for the first time in the session, and
\* marks the session so that it writes no second one; it is for the current
\* level with the current score; and none is written while a LevelStartEvent
\* waits for handle_level_start_events, that is for the level or on the
\* score that the selection of a level is about to replace.
C32_CompletionOncePerSession ==
    /\ [][Emitted =>
            /\ ~level_session.target_reached
            /\ level_session'.target_reached
            /\ NewEvent.level_id = level_data.current_level
            /\ NewEvent.final_score = game_data.score
            /\ game_data.score >= target_points(level_data.current_level)
            /\ level_start = <<>>]_vars
    /\ [][(/\ "check_level_completion" \in ran' \ ran
           /\ level_session.started
           /\ ~level_session.target_reached
           /\ game_data.score >= target_points(level_data.current_level)) => Emitted]_vars

\* ------------------------------------------------------------ while paused

\* C36: while the pause state is Paused, no step of the game creates, changes
\* or removes a dandelion, seed orb, rabbit or fire, or queues such a change,
\* and score, combo, the combo timer, dandelion_count, the spawn timers, the
\* area tracker and the targeting registry stay as they are, so that the
\* game resumes from the state in which it was paused.
C36_FrozenWhilePaused ==
    [][(pause_state # "Playing" /\ game_state = "Playing" /\ game_state' = "Playing") =>
         /\ UNCHANGED <<dandelions, orbs, rabbits, fires>>
         /\ commands'.despawn = commands.despawn
         /\ commands'.dandelions = commands.dandelions
         /\ UNCHANGED <<game_data, spawn_timer, variety_timer, total_area, targets>>]_vars

====
